---- MODULE Spec2Model ----
(***************************************************************************)
(* Vector to G-Code (Figma plugin): the geometry-to-toolpath pipeline of   *)
(* "Vector to G-Code/code.ts".                                             *)
(*                                                                         *)
(* Numbers are exact rationals [n, d] (d > 0, lowest terms); a division by *)
(* zero yields the IEEE values the JavaScript build produces: d = 0 with   *)
(* n = 1 (Infinity), n = -1 (-Infinity) or n = 0 (NaN).                    *)
(***************************************************************************)
EXTENDS Integers, Sequences, FiniteSets, TLC

VARIABLES
    paths,      \* pathsToGCode / groupPathsByColor: the Path[] argument
    settings,   \* pathsToGCode: the Settings argument
    origin,     \* pathsToGCode: the Origin argument
    groups,     \* the Map returned by groupPathsByColor (insertion ordered)
    lines,      \* the lines of the program returned by pathsToGCode
    phase,      \* "input" before the call, "done" after it
    doc,        \* the host document: the scene nodes, by id
    selection,  \* figma.currentPage.selection
    runs,       \* the calls of figma.ui.onmessage / generateGCode, by number
    msgs,       \* what figma.ui.postMessage has sent to the UI, in order
    stored,     \* figma.clientStorage 'settings'
    pluginClosed, \* figma.closePlugin() was called
    curve,      \* linearizeCubicBezier: its arguments and what the call gave
    parsed      \* parsePathData: its data argument and what the call gave

pureVars == <<paths, settings, origin, groups, lines, phase, curve, parsed>>

hostVars == <<doc, selection, runs, msgs, stored, pluginClosed>>

vars == <<paths, settings, origin, groups, lines, phase,
          doc, selection, runs, msgs, stored, pluginClosed, curve, parsed>>

----------------------------------------------------------------------------
(* Numbers *)

Abs(i) == IF i < 0 THEN -i ELSE i

Sgn(i) == IF i < 0 THEN -1 ELSE IF i > 0 THEN 1 ELSE 0

RECURSIVE Gcd(_, _)
Gcd(a, b) == IF b = 0 THEN a ELSE Gcd(b, a % b)

\* The number n/d; d = 0 gives Infinity, -Infinity or NaN by the sign of n.
Rat(n, d) ==
    IF d = 0 THEN [n |-> Sgn(n), d |-> 0]
    ELSE LET g == Gcd(Abs(n), Abs(d))
         IN  [n |-> Sgn(d) * (n \div g), d |-> Abs(d) \div g]

R(i) == [n |-> i, d |-> 1]

IsFinite(a) == a.d # 0

\* The sum, difference, product and quotient are taken over the least
\* common denominator, and common factors leave a product before it is
\* multiplied out: the values are those of n1/d1 (+, -, *, /) n2/d2.
RAdd(a, b) ==
    IF a.d = 0 \/ b.d = 0 THEN Rat(a.n * b.d + b.n * a.d, 0)
    ELSE LET g == Gcd(a.d, b.d)
         IN  Rat(a.n * (b.d \div g) + b.n * (a.d \div g), (a.d \div g) * b.d)

RSub(a, b) == RAdd(a, [n |-> -b.n, d |-> b.d])

RMul(a, b) ==
    IF a.d = 0 \/ b.d = 0 THEN Rat(a.n * b.n, 0)
    ELSE LET g1 == Gcd(Abs(a.n), b.d)
             g2 == Gcd(Abs(b.n), a.d)
         IN  Rat((a.n \div g1) * (b.n \div g2), (a.d \div g2) * (b.d \div g1))

\* a / b for finite a, b; x/0 is Infinity, -Infinity or NaN.
RDiv(a, b) ==
    IF a.d = 0 \/ b.d = 0 \/ b.n = 0 THEN Rat(a.n * b.d, a.d * b.n)
    ELSE RMul(a, [n |-> Sgn(b.n) * b.d, d |-> Abs(b.n)])

RLess(a, b) ==
    IF a.d = 0 \/ b.d = 0 THEN a.n * b.d < b.n * a.d
    ELSE LET g == Gcd(a.d, b.d)
         IN  a.n * (b.d \div g) < b.n * (a.d \div g)

\* Math.round: the nearest integer, halves towards +Infinity.
MathRound(a) == (2 * a.n + a.d) \div (2 * a.d)

\* Number.prototype.toFixed(3): the text of a number with three decimals,
\* as [k, neg, m]: "-"? then m/1000, halves away from zero; the non-finite
\* numbers render as their names.
ToFixed3(a) ==
    IF a.d = 0
    THEN [k |-> IF a.n > 0 THEN "Infinity" ELSE IF a.n < 0 THEN "-Infinity" ELSE "NaN",
          neg |-> FALSE, m |-> 0]
    ELSE [k |-> "num", neg |-> a.n < 0,
          m |-> (2000 * Abs(a.n) + a.d) \div (2 * a.d)]

----------------------------------------------------------------------------
(* Color Grouper *)

HexDigits ==
    <<"0", "1", "2", "3", "4", "5", "6", "7", "8", "9", "a", "b", "c", "d", "e", "f">>

\* Number.prototype.toString(16) of an integer, as a sequence of characters.
RECURSIVE ToString16(_)
ToString16(i) ==
    IF i < 0 THEN <<"-">> \o ToString16(-i)
    ELSE IF i < 16 THEN <<HexDigits[i + 1]>>
    ELSE ToString16(i \div 16) \o <<HexDigits[(i % 16) + 1]>>

UpperChar(c) ==
    CASE c = "a" -> "A" [] c = "b" -> "B" [] c = "c" -> "C"
      [] c = "d" -> "D" [] c = "e" -> "E" [] c = "f" -> "F"
      [] OTHER -> c

toUpperCase(s) == [i \in 1..Len(s) |-> UpperChar(s[i])]

\* toHex without the padding of one-digit values.
toHexUnpadded(n) == ToString16(MathRound(RMul(n, R(255))))

toHex(n) ==
    LET hex == ToString16(MathRound(RMul(n, R(255))))
    IN  IF Len(hex) = 1 THEN <<"0">> \o hex ELSE hex

colorToHex(color) ==
    toUpperCase(<<"#">> \o toHex(color.r) \o toHex(color.g) \o toHex(color.b))

DEFAULT == <<"D", "E", "F", "A", "U", "L", "T">>

\* A Path's optional color is <<>> (undefined) or <<c>>.
HasColor(path) == path.color # <<>>

PathKey(path) == IF HasColor(path) THEN colorToHex(path.color[1]) ELSE DEFAULT

MapHas(map, key) == \E j \in 1..Len(map) : map[j].key = key

\* GroupStep that puts the path at the front of its bucket (unshift).
GroupStepUnshift(map, path) ==
    LET key == IF HasColor(path) THEN colorToHex(path.color[1]) ELSE DEFAULT
        m1  == IF ~(\E j \in 1..Len(map) : map[j].key = key)
               THEN Append(map, [key |-> key, paths |-> <<>>])
               ELSE map
    IN  [j \in 1..Len(m1) |->
            IF m1[j].key = key
            THEN [m1[j] EXCEPT !.paths = <<path>> \o @]
            ELSE m1[j]]

\* One iteration of the loop of groupPathsByColor: groups.set(key, []) when
\* the key is new (a Map keeps insertion order), then push.
GroupStep(map, path) ==
    LET key == PathKey(path)
        m1  == IF ~MapHas(map, key)
               THEN Append(map, [key |-> key, paths |-> <<>>])
               ELSE map
    IN  [j \in 1..Len(m1) |->
            IF m1[j].key = key
            THEN [m1[j] EXCEPT !.paths = Append(@, path)]
            ELSE m1[j]]

RECURSIVE GroupLoop(_, _, _)
GroupLoop(ps, i, map) ==
    IF i > Len(ps) THEN map ELSE GroupLoop(ps, i + 1, GroupStep(map, ps[i]))

groupPathsByColor(ps) == GroupLoop(ps, 1, <<>>)

----------------------------------------------------------------------------
(* G-Code Emitter *)

NoNum == [k |-> "", neg |-> FALSE, m |-> 0]

\* A line of the program: op is the word the line starts with ("" for an
\* empty line, ";" for a comment, "pen" for a pen command, whose text is s).
Line(op, tag, key, n, s, x, y) ==
    [op |-> op, tag |-> tag, key |-> key, n |-> n, s |-> s, x |-> x, y |-> y]

Blank == Line("", "", <<>>, 0, "", NoNum, NoNum)

Comment(tag, key, n, s) == Line(";", tag, key, n, s, NoNum, NoNum)

Word(op) == Line(op, "", <<>>, 0, "", NoNum, NoNum)

PenCmd(cmd) == Line("pen", "", <<>>, 0, cmd, NoNum, NoNum)

HomeMove == Line("G0", "X0 Y0", <<>>, 0, "", NoNum, NoNum)

\* (p.x - origin.x) / scale and (frameHeight - (p.y - origin.y)) / scale
OutX(p, st, org) == RDiv(RSub(p.x, org.x), st.scale)

\* OutY without the flip: the document's Y, growing downwards.
OutYUnflipped(p, st, org) == RDiv(RSub(p.y, org.y), st.scale)

\* OutY with the flip made for an existing frame alone.
OutYOfExisting(p, st, org) ==
    RDiv(RSub(IF org.frame # 0 THEN org.height ELSE R(0), RSub(p.y, org.y)), st.scale)

OutY(p, st, org) == RDiv(RSub(org.height, RSub(p.y, org.y)), st.scale)

RapidTo(p, st, org) ==
    Line("G0", "XY", <<>>, 0, "", ToFixed3(OutX(p, st, org)), ToFixed3(OutY(p, st, org)))

FeedTo(p, st, org) ==
    Line("G1", "XY", <<>>, st.feedRate, "", ToFixed3(OutX(p, st, org)), ToFixed3(OutY(p, st, org)))

\* PathLines with the drawing loop started at the first point (j = 0).
PathLinesFromFirst(path, idx, st, org) ==
    <<Blank, Comment("Path", <<>>, idx, ""),
      RapidTo(path.points[1], st, org),
      PenCmd(st.penDownCmd)>>
    \o [j \in 1..Len(path.points) |-> FeedTo(path.points[j], st, org)]
    \o <<PenCmd(st.penUpCmd)>>

\* PathLines without the pen up that ends a path (variant).
PathLinesPenLeftDown(path, idx, st, org) ==
    <<Blank, Comment("Path", <<>>, idx, ""),
      RapidTo(path.points[1], st, org),
      PenCmd(st.penDownCmd)>>
    \o [j \in 1..(Len(path.points) - 1) |-> FeedTo(path.points[j + 1], st, org)]

\* The lines of one non-empty path, numbered idx.
PathLines(path, idx, st, org) ==
    <<Blank, Comment("Path", <<>>, idx, ""),
      RapidTo(path.points[1], st, org),
      PenCmd(st.penDownCmd)>>
    \o [j \in 1..(Len(path.points) - 1) |-> FeedTo(path.points[j + 1], st, org)]
    \o <<PenCmd(st.penUpCmd)>>

\* The loop over one color group's paths: [out, idx], the lines and the
\* value of globalPathIndex after it.
RECURSIVE GroupPathsLoop(_, _, _, _, _, _)
GroupPathsLoop(groupPaths, i, idx, out, st, org) ==
    IF i > Len(groupPaths) THEN [out |-> out, idx |-> idx]
    ELSE IF Len(groupPaths[i].points) = 0
         THEN GroupPathsLoop(groupPaths, i + 1, idx, out, st, org)
         ELSE GroupPathsLoop(groupPaths, i + 1, idx + 1,
                             out \o PathLines(groupPaths[i], idx + 1, st, org), st, org)

Rule == Comment("========================================", <<>>, 0, "")

GroupHeader(g) ==
    <<Blank, Rule,
      Comment("Color", g.key, Len(g.paths), IF Len(g.paths) # 1 THEN "paths" ELSE "path"),
      Rule>>

\* PenChange that pauses where the pen stands, without the return to X0 Y0.
PenChangeInPlace(st) ==
    <<Blank, Comment("Return to origin for pen change", <<>>, 0, ""),
      PenCmd(st.penUpCmd), Word("M0")>>

PenChange(st) ==
    <<Blank, Comment("Return to origin for pen change", <<>>, 0, ""),
      PenCmd(st.penUpCmd), HomeMove, Word("M0")>>

\* The loop over the color groups.
RECURSIVE ColorLoop(_, _, _, _, _, _)
ColorLoop(colorGroups, colorIndex, idx, out, st, org) ==
    IF colorIndex > Len(colorGroups) THEN out
    ELSE LET g    == colorGroups[colorIndex]
             body == GroupPathsLoop(g.paths, 1, idx, out \o GroupHeader(g), st, org)
             tail == IF colorIndex < Len(colorGroups) THEN PenChange(st) ELSE <<>>
         IN  ColorLoop(colorGroups, colorIndex + 1, body.idx, body.out \o tail, st, org)

Header(ps, colorGroups, st, org) ==
    <<Comment("Generated by Figma Vector to G-Code", <<>>, 0, ""),
      Comment("Units", <<>>, 0, st.units),
      Comment("Paths", <<>>, Len(ps), ""),
      Comment("Color groups", <<>>, Len(colorGroups), ""),
      Comment("Origin", <<>>, 0,
              IF org.frame # 0 THEN "existing frame" ELSE "auto-generated frame"),
      Blank,
      Word(IF st.units = "mm" THEN "G21" ELSE "G20"),
      Word("G90"),
      Word("G17"),
      Blank>>

Footer == <<Blank, Comment("End", <<>>, 0, ""), HomeMove, Word("M2")>>

pathsToGCode(ps, st, org) ==
    LET colorGroups == groupPathsByColor(ps)
    IN  Header(ps, colorGroups, st, org)
        \o <<PenCmd(st.penUpCmd)>>
        \o ColorLoop(colorGroups, 1, 0, <<>>, st, org)
        \o Footer

----------------------------------------------------------------------------
(* Curve Flattener *)

BEZIER_TOLERANCE == Rat(1, 2)

\* The frames the engine's call stack holds: a call nested deeper throws
\* RangeError (Maximum call stack size exceeded).
StackLimit == 26

NaN == [n |-> 0, d |-> 0]

IsNaN(a) == a.d = 0 /\ a.n = 0

\* a <= b, false when either is NaN.
RLeq(a, b) == ~IsNaN(a) /\ ~IsNaN(b) /\ ~RLess(b, a)

Sq(a) == RMul(a, a)

midpoint(a, b) ==
    [x |-> RDiv(RAdd(a.x, b.x), R(2)), y |-> RDiv(RAdd(a.y, b.y), R(2))]

\* The square of pointToLineDistance(p, a, b): the distances are compared
\* on their squares, which are rational.
pointToLineDistanceSq(p, a, b) ==
    LET dx == RSub(b.x, a.x)
        dy == RSub(b.y, a.y)
        lengthSq == RAdd(Sq(dx), Sq(dy))
    IN  IF lengthSq = R(0)
        THEN RAdd(Sq(RSub(p.x, a.x)), Sq(RSub(p.y, a.y)))
        ELSE LET cross == RSub(RMul(RSub(p.x, a.x), dy), RMul(RSub(p.y, a.y), dx))
             IN  RDiv(Sq(cross), lengthSq)

\* Math.max of two numbers: NaN when either is.
MaxOrNaN(a, b) ==
    IF IsNaN(a) \/ IsNaN(b) THEN NaN ELSE IF RLess(a, b) THEN b ELSE a

\* The square of cubicBezierFlatness(p0, p1, p2, p3).
cubicBezierFlatnessSq(p0, p1, p2, p3) ==
    MaxOrNaN(pointToLineDistanceSq(p1, p0, p3), pointToLineDistanceSq(p2, p0, p3))

\* The test with the tolerance reversed: flat when flatness <= 10 - tolerance.
IsFlatReversed(p0, p1, p2, p3, tolerance) ==
    /\ RLeq(tolerance, R(10))
    /\ RLeq(cubicBezierFlatnessSq(p0, p1, p2, p3), Sq(RSub(R(10), tolerance)))

\* flatness <= tolerance
IsFlat(p0, p1, p2, p3, tolerance) ==
    /\ RLeq(R(0), tolerance)
    /\ RLeq(cubicBezierFlatnessSq(p0, p1, p2, p3), Sq(tolerance))

\* The flat branch with the start point pushed too.
FlatPointsWithStart(p0, p3) == <<p0, p3>>

\* The flat branch: points.push(p3).
FlatPoints(p0, p3) == <<p3>>

\* What a call gives: the points it returns, or thrown (the call stack
\* overflowed and no value is returned); depth is the deepest nesting the
\* call reached and leaves the number of segments found flat.
Gave(points, thrown, depth, leaves) ==
    [points |-> points, thrown |-> thrown, depth |-> depth, leaves |-> leaves]

\* linearizeCubicBezier(p0, p1, p2, p3, tolerance), called at nesting depth.
RECURSIVE linearizeCubicBezier(_, _, _, _, _, _)
linearizeCubicBezier(p0, p1, p2, p3, tolerance, depth) ==
    IF depth > StackLimit THEN Gave(<<>>, TRUE, depth - 1, 0)
    ELSE IF IsFlat(p0, p1, p2, p3, tolerance)
    THEN Gave(FlatPoints(p0, p3), FALSE, depth, 1)
    ELSE LET mid01 == midpoint(p0, p1)
             mid12 == midpoint(p1, p2)
             mid23 == midpoint(p2, p3)
             mid012 == midpoint(mid01, mid12)
             mid123 == midpoint(mid12, mid23)
             mid0123 == midpoint(mid012, mid123)
             first == linearizeCubicBezier(p0, mid01, mid012, mid0123, tolerance, depth + 1)
         IN  IF first.thrown THEN first
             ELSE LET second == linearizeCubicBezier(mid0123, mid123, mid23, p3,
                                                     tolerance, depth + 1)
                  IN  IF second.thrown
                      THEN [second EXCEPT !.depth = IF first.depth > @ THEN first.depth ELSE @]
                      ELSE Gave(first.points \o second.points, FALSE,
                                IF first.depth > second.depth THEN first.depth
                                ELSE second.depth,
                                first.leaves + second.leaves)

----------------------------------------------------------------------------
(* Inputs of the pure stages, drawn from bounded sets *)

MaxPaths == 3       \* paths given to pathsToGCode
MaxPts == 3         \* points of one path
MaxGroupPaths == 5  \* paths given to groupPathsByColor alone

Pt(x, y) == [x |-> R(x), y |-> R(y)]

\* (0,0), (10,0), (10,10), then further points off the frame's edges.
PolyPoint(j) ==
    CASE j = 1 -> Pt(0, 0)
      [] j = 2 -> Pt(10, 0)
      [] j = 3 -> Pt(10, 10)
      [] OTHER -> Pt(j, 2 * j + 1)

Poly(n) == [j \in 1..n |-> PolyPoint(j)]

Rgba(r, g, b, a) == [r |-> r, g |-> g, b |-> b, a |-> a]

Red == Rgba(R(1), R(0), R(0), R(1))

Blue == Rgba(R(0), R(0), R(1), R(1))

\* Red again to 8 bits (254.5/255 rounds to 255), half transparent.
FadedRed == Rgba(Rat(509, 510), Rat(1, 1000), R(0), Rat(1, 2))

\* Channels 1/255, 16/255 and 17/255, 0: "01" "10" against "11" "00".
Dark1 == Rgba(Rat(1, 255), Rat(16, 255), R(0), R(1))

Dark2 == Rgba(Rat(17, 255), R(0), R(0), R(1))

GroupColors == {<<>>, <<Red>>, <<FadedRed>>, <<Blue>>, <<Dark1>>, <<Dark2>>}

Path(points, closed, color) == [points |-> points, closed |-> closed, color |-> color]

\* Uncolored paths of every length, red ones empty or full, one blue one.
EmitPaths ==
    {Path(Poly(n), FALSE, <<>>) : n \in 0..MaxPts}
    \cup {Path(Poly(n), TRUE, <<Red>>) : n \in {0, MaxPts}}
    \cup {Path(Poly(MaxPts - 1), FALSE, <<Blue>>)}

GroupPaths == {Path(Poly(2), FALSE, c) : c \in GroupColors}

SeqsUpTo(S, n) == UNION {[1..k -> S] : k \in 0..n}

Settings(units, scale, feedRate) ==
    [units |-> units, scale |-> scale, feedRate |-> feedRate,
     penUpCmd |-> "G0 Z5", penDownCmd |-> "G0 Z-1"]

Origin(x, y, height, frame) == [x |-> R(x), y |-> R(y), height |-> R(height), frame |-> frame]

EmitSettings ==
    {Settings("mm", R(1), 1000), Settings("inch", R(3), 1000),
     Settings("mm", R(0), 1000), Settings("mm", R(-2), 1000),
     Settings("mm", Rat(1, 2), 0)}

EmitOrigins == {Origin(0, 0, 10, 1), Origin(0, 0, 10, 0), Origin(3, -2, 12, 1)}

NoSettings == Settings("mm", R(1), 0)

NoOrigin == Origin(0, 0, 0, 0)

----------------------------------------------------------------------------
(* groupPathsByColor applied to every bounded input *)

\* The control points tried: the corners of a square, a point on the
\* line of its lower side beyond the corner, and a point that is not a
\* number (what parseFloat gives for text that is no number).
CurvePoints == {Pt(0, 0), Pt(4, 0), Pt(4, 4), Pt(0, 4), Pt(8, 0)}

NaNPoint == [x |-> NaN, y |-> NaN]

Tolerances == {BEZIER_TOLERANCE, R(2), R(8)}

\* The call before it is made (pc "input") and after it (pc "called").
Curve(p0, p1, p2, p3, tolerance) ==
    [p0 |-> p0, p1 |-> p1, p2 |-> p2, p3 |-> p3, tolerance |-> tolerance,
     pc |-> "input", gave |-> Gave(<<>>, FALSE, 0, 0)]

NoCurve == Curve(Pt(0, 0), Pt(0, 0), Pt(0, 0), Pt(0, 0), R(0))

\* What parsePathData returned: the Path, or thrown when the call ended in
\* the RangeError of its linearizeCubicBezier.
Parsed(data, points, closed, thrown) ==
    [data |-> data, pc |-> "input", points |-> points, closed |-> closed,
     thrown |-> thrown]

NoParse == Parsed(<<>>, <<>>, FALSE, FALSE)

\* The plugin itself is not running.
HostIdle ==
    /\ doc = <<>>
    /\ selection = <<>>
    /\ runs = <<>>
    /\ msgs = <<>>
    /\ stored = <<>>
    /\ pluginClosed = FALSE

InitGroup ==
    /\ paths \in SeqsUpTo(GroupPaths, MaxGroupPaths)
    /\ settings = NoSettings
    /\ origin = NoOrigin
    /\ groups = <<>>
    /\ lines = <<>>
    /\ phase = "input"
    /\ HostIdle
    /\ curve = NoCurve
    /\ parsed = NoParse

CallGroup ==
    /\ phase = "input"
    /\ groups' = groupPathsByColor(paths)
    /\ phase' = "done"
    /\ UNCHANGED <<paths, settings, origin, lines, curve, parsed>>
    /\ UNCHANGED hostVars

NextGroup == CallGroup

SpecGroup == InitGroup /\ [][NextGroup]_vars

----------------------------------------------------------------------------
(* pathsToGCode applied to every bounded input *)

InitEmit ==
    /\ paths \in SeqsUpTo(EmitPaths, MaxPaths)
    /\ settings \in EmitSettings
    /\ origin \in EmitOrigins
    /\ groups = <<>>
    /\ lines = <<>>
    /\ phase = "input"
    /\ HostIdle
    /\ curve = NoCurve
    /\ parsed = NoParse

CallEmit ==
    /\ phase = "input"
    /\ groups' = groupPathsByColor(paths)
    /\ lines' = pathsToGCode(paths, settings, origin)
    /\ phase' = "done"
    /\ UNCHANGED <<paths, settings, origin, curve, parsed>>
    /\ UNCHANGED hostVars

NextEmit == CallEmit

SpecEmit == InitEmit /\ [][NextEmit]_vars
----------------------------------------------------------------------------
(* linearizeCubicBezier applied *)

InitBezier ==
    /\ paths = <<>>
    /\ settings = NoSettings
    /\ origin = NoOrigin
    /\ groups = <<>>
    /\ lines = <<>>
    /\ phase = "input"
    /\ HostIdle
    /\ \E p0, p2, p3 \in CurvePoints, p1 \in CurvePoints \cup {NaNPoint},
          t \in Tolerances :
           curve = Curve(p0, p1, p2, p3, t)
    /\ parsed = NoParse

CallBezier ==
    /\ curve.pc = "input"
    /\ curve' = [curve EXCEPT !.pc = "called",
                              !.gave = linearizeCubicBezier(curve.p0, curve.p1, curve.p2,
                                                            curve.p3, curve.tolerance, 1)]
    /\ UNCHANGED <<paths, settings, origin, groups, lines, phase, parsed>>
    /\ UNCHANGED hostVars

NextBezier == CallBezier

SpecBezier == InitBezier /\ [][NextBezier]_vars

----------------------------------------------------------------------------
(* Reading a program back *)

IsBlank(l) == l.op = ""

IsComment(l) == l.op = ";"

IsPathComment(l) == l.op = ";" /\ l.tag = "Path"

IsColorComment(l) == l.op = ";" /\ l.tag = "Color"

IsCoordMove(l) == l.op \in {"G0", "G1"} /\ l.tag = "XY"

\* The number of lines of ls that satisfy Test.
CountLines(ls, Test(_)) == Cardinality({i \in 1..Len(ls) : Test(ls[i])})

\* The indices of the lines of ls that satisfy Test, in increasing order.
IndicesOf(ls, Test(_)) ==
    LET S == {i \in 1..Len(ls) : Test(ls[i])}
    IN  [k \in 1..Cardinality(S) |->
            CHOOSE i \in S : Cardinality({j \in S : j < i}) = k - 1]

\* The lines that follow line i up to the next empty line (or the end).
BlockAfter(ls, i) ==
    LET stop == CHOOSE j \in (i + 1)..(Len(ls) + 1) :
                    /\ j = Len(ls) + 1 \/ IsBlank(ls[j])
                    /\ \A k \in (i + 1)..(j - 1) : ~IsBlank(ls[k])
    IN  SubSeq(ls, i + 1, stop - 1)

\* One block per "; Path n" comment of the program.
PathBlocks(ls) ==
    LET at == IndicesOf(ls, IsPathComment)
    IN  [k \in 1..Len(at) |-> BlockAfter(ls, at[k])]

RECURSIVE NonEmptyPaths(_)
NonEmptyPaths(ps) ==
    IF ps = <<>> THEN <<>>
    ELSE (IF Len(Head(ps).points) > 0 THEN <<Head(ps)>> ELSE <<>>) \o NonEmptyPaths(Tail(ps))

\* The non-empty paths bucket by bucket, each bucket in its own order.
RECURSIVE InBucketOrder(_, _)
InBucketOrder(map, b) ==
    IF b > Len(map) THEN <<>>
    ELSE NonEmptyPaths(map[b].paths) \o InBucketOrder(map, b + 1)

RECURSIVE TotalPoints(_)
TotalPoints(ps) == IF ps = <<>> THEN 0 ELSE Len(Head(ps).points) + TotalPoints(Tail(ps))

RECURSIVE PathsWithKey(_, _)
PathsWithKey(ps, key) ==
    IF ps = <<>> THEN <<>>
    ELSE (IF PathKey(Head(ps)) = key THEN <<Head(ps)>> ELSE <<>>) \o PathsWithKey(Tail(ps), key)

FirstIndexOfKey(ps, key) ==
    CHOOSE i \in 1..Len(ps) :
        /\ PathKey(ps[i]) = key
        /\ \A j \in 1..(i - 1) : PathKey(ps[j]) # key

\* The number the text of a coordinate denotes.
Denoted(t) ==
    CASE t.k = "num" -> Rat(IF t.neg THEN -t.m ELSE t.m, 1000)
      [] t.k = "Infinity" -> [n |-> 1, d |-> 0]
      [] t.k = "-Infinity" -> [n |-> -1, d |-> 0]
      [] OTHER -> [n |-> 0, d |-> 0]

----------------------------------------------------------------------------
(* Claims about the emitter's sequencing *)

\* What one path is to contribute: a rapid move to its first point, pen
\* down, one feed move per further point, pen up.
C1_Contribution(p) ==
    <<[op |-> "G0", pt |-> 1], [op |-> "pen", s |-> settings.penDownCmd]>>
    \o [j \in 1..(Len(p.points) - 1) |-> [op |-> "G1", pt |-> j + 1]]
    \o <<[op |-> "pen", s |-> settings.penUpCmd]>>

C1_Matches(l, want, p) ==
    IF want.op = "pen"
    THEN l.op = "pen" /\ l.s = want.s
    ELSE /\ l.op = want.op
         /\ l.tag = "XY"
         /\ l.x = ToFixed3(RDiv(RSub(p.points[want.pt].x, origin.x), settings.scale))
         /\ l.y = ToFixed3(RDiv(RSub(origin.height, RSub(p.points[want.pt].y, origin.y)),
                                settings.scale))
         /\ (want.op = "G1" => l.n = settings.feedRate)

C1_IsPenDown(l) == l.op = "pen" /\ l.s = settings.penDownCmd

\* C1: every path with at least one point contributes exactly G0 to its
\* first transformed point, penDownCmd, one G1 F<feedRate> per remaining
\* point in point order, penUpCmd, with only comment lines in between; the
\* contributions come bucket by bucket in bucket order, each bucket in its
\* path order, and no coordinate move or pen-down occurs outside them.
C1_PathContributions ==
    phase = "done" =>
        LET blocks == PathBlocks(lines)
            flat   == InBucketOrder(groups, 1)
        IN  /\ Len(blocks) = Len(flat)
            /\ \A k \in 1..Len(blocks) :
                   LET want == C1_Contribution(flat[k])
                   IN  /\ Len(blocks[k]) = Len(want)
                       /\ \A i \in 1..Len(want) : C1_Matches(blocks[k][i], want[i], flat[k])
            /\ CountLines(lines, IsCoordMove) = TotalPoints(flat)
            /\ CountLines(lines, C1_IsPenDown) = Len(flat)

\* C1 is met by a program of three buckets with a three-point path.
C1_Witness ==
    /\ phase = "done"
    /\ Len(groups) = 3
    /\ Len(PathBlocks(lines)) = 3
    /\ \E k \in 1..3 : Len(PathBlocks(lines)[k]) = 5
C2_IsPause(l) == l.op = "M0"

C2_IsEnd(l) == l.op = "M2"

\* C2: with k >= 1 buckets the program holds exactly k-1 pauses (M0), one
\* between the last line of each bucket and the first line of the next,
\* each right after a rapid move to X0 Y0; after the final bucket comes a
\* rapid move to X0 Y0 and then M2, once, as the last line.
C2_PausesAndEnd ==
    (phase = "done" /\ Len(groups) >= 1) =>
        LET starts == IndicesOf(lines, IsColorComment)
            pauses == IndicesOf(lines, C2_IsPause)
            k      == Len(groups)
        IN  /\ Len(starts) = k
            /\ Len(pauses) = k - 1
            /\ \A b \in 1..(k - 1) :
                   /\ starts[b] < pauses[b]
                   /\ pauses[b] < starts[b + 1]
                   /\ lines[pauses[b] - 1] = HomeMove
                   /\ \A i \in (pauses[b] + 1)..(starts[b + 1] - 1) :
                          IsBlank(lines[i]) \/ IsComment(lines[i])
                   /\ \A i \in (starts[b] + 1)..(pauses[b] - 1) :
                          ~IsColorComment(lines[i])
            /\ CountLines(lines, C2_IsEnd) = 1
            /\ lines[Len(lines)].op = "M2"
            /\ lines[Len(lines) - 1] = HomeMove
            /\ \A i \in starts[k]..Len(lines) : ~C2_IsPause(lines[i])

\* C2 is met by a program of three buckets, each with a drawn path.
C2_Witness ==
    /\ phase = "done"
    /\ Len(groups) = 3
    /\ CountLines(lines, C2_IsPause) = 2
    /\ Len(PathBlocks(lines)) = 3

----------------------------------------------------------------------------
(* Claims about the color grouper *)

\* C3: each bucket holds exactly the input paths that have its key, in
\* input order (none lost, duplicated or reordered, no bucket empty), and
\* the buckets come in the order of their first path in the input.
C3_BucketsPartitionInOrder ==
    phase = "done" =>
        /\ \A b \in 1..Len(groups) :
               /\ groups[b].paths # <<>>
               /\ groups[b].paths = PathsWithKey(paths, groups[b].key)
        /\ \A i \in 1..Len(paths) : \E b \in 1..Len(groups) : groups[b].key = PathKey(paths[i])
        /\ \A b, c \in 1..Len(groups) :
               b < c => FirstIndexOfKey(paths, groups[b].key) < FirstIndexOfKey(paths, groups[c].key)

\* C3 is met by five paths colored A, A, B, A, B whose second A differs
\* from the first (same key, other opacity), grouped as [A x 3, B x 2].
C3_Witness ==
    /\ phase = "done"
    /\ Len(paths) = 5
    /\ paths[1].color = <<Red>> /\ paths[2].color = <<FadedRed>> /\ paths[4].color = <<Red>>
    /\ paths[3].color = <<>> /\ paths[5].color = <<>>
    /\ Len(groups) = 2
    /\ Len(groups[1].paths) = 3
    /\ Len(groups[2].paths) = 2

C4_Byte(n) == (2 * 255 * n.n + n.d) \div (2 * n.d)

C4_SameBucket(p, q) ==
    \E b \in 1..Len(groups) :
        /\ \E i \in 1..Len(groups[b].paths) : groups[b].paths[i] = p
        /\ \E i \in 1..Len(groups[b].paths) : groups[b].paths[i] = q

\* C4: two paths share a bucket iff both have no color, or both have one
\* and their R, G and B round to the same 8-bit values; alpha plays no part
\* and an uncolored path never joins a colored one.
C4_SameBucketIffSameRgb ==
    phase = "done" =>
        \A i, j \in 1..Len(paths) :
            LET p == paths[i]
                q == paths[j]
            IN  C4_SameBucket(p, q) <=>
                    \/ p.color = <<>> /\ q.color = <<>>
                    \/ /\ p.color # <<>>
                       /\ q.color # <<>>
                       /\ C4_Byte(p.color[1].r) = C4_Byte(q.color[1].r)
                       /\ C4_Byte(p.color[1].g) = C4_Byte(q.color[1].g)
                       /\ C4_Byte(p.color[1].b) = C4_Byte(q.color[1].b)

\* C4 is met where two reds of different opacity share a bucket while an
\* uncolored path and two near-black colors each have their own.
C4_Witness ==
    /\ phase = "done"
    /\ \E i, j, u, d, e \in 1..Len(paths) :
           /\ paths[i].color = <<Red>>
           /\ paths[j].color = <<FadedRed>>
           /\ paths[u].color = <<>>
           /\ paths[d].color = <<Dark1>>
           /\ paths[e].color = <<Dark2>>
           /\ C4_SameBucket(paths[i], paths[j])
           /\ ~C4_SameBucket(paths[i], paths[u])
           /\ ~C4_SameBucket(paths[d], paths[e])
----------------------------------------------------------------------------
(* Claims about the emitter's coordinates and counts *)

C5_ExactX(p) == RDiv(RSub(p.x, origin.x), settings.scale)

C5_ExactY(p) == RDiv(RSub(origin.height, RSub(p.y, origin.y)), settings.scale)

\* The line written for point j of the k-th emitted path: the rapid move
\* for the first point, else the (j-1)-th feed move after the pen-down.
C5_Written(k, j) ==
    LET block == PathBlocks(lines)[k]
    IN  IF j = 1 THEN block[1] ELSE block[j + 1]

\* The text t is the number v to three decimals: within 0.0005 of it, or
\* the name of v when v is not finite.
C5_Renders(t, v) ==
    IF v.d = 0 THEN t.k # "num" /\ Denoted(t) = v
    ELSE /\ t.k = "num"
         /\ LET diff == RSub(Denoted(t), v)
            IN  2000 * Abs(diff.n) <= diff.d

\* C5 as stated, read on valid settings (scale > 0, feedRate > 0) alone:
\* every coordinate pair written for a point p equals
\* ((p.x - origin.x)/scale, (origin.height - (p.y - origin.y))/scale), so a
\* top-edge point has Y = height/scale and a bottom-edge point Y = 0.
C5_CoordinatesExact ==
    (phase = "done" /\ RLess(R(0), settings.scale) /\ settings.feedRate > 0) =>
        LET flat == InBucketOrder(groups, 1)
        IN  \A k \in 1..Len(flat) : \A j \in 1..Len(flat[k].points) :
                LET p == flat[k].points[j]
                    w == C5_Written(k, j)
                IN  /\ Denoted(w.x) = C5_ExactX(p)
                    /\ Denoted(w.y) = C5_ExactY(p)
                    /\ (p.y = origin.y => Denoted(w.y) = RDiv(origin.height, settings.scale))
                    /\ (p.y = RAdd(origin.y, origin.height) => Denoted(w.y) = R(0))

\* C5 as amended: every coordinate pair written for a point p is that pair
\* rendered to three decimals (a value that is not finite by its name), so
\* a top-edge point has Y = height/scale to three decimals and a
\* bottom-edge point Y = 0/scale, which is 0.000 for every scale but 0.
C5_CoordinatesToThreeDecimals ==
    phase = "done" =>
        LET flat == InBucketOrder(groups, 1)
        IN  \A k \in 1..Len(flat) : \A j \in 1..Len(flat[k].points) :
                LET p == flat[k].points[j]
                    w == C5_Written(k, j)
                IN  /\ C5_Renders(w.x, C5_ExactX(p))
                    /\ C5_Renders(w.y, C5_ExactY(p))
                    /\ (p.y = origin.y =>
                            C5_Renders(w.y, RDiv(origin.height, settings.scale)))
                    /\ (p.y = RAdd(origin.y, origin.height) =>
                            /\ C5_Renders(w.y, RDiv(R(0), settings.scale))
                            /\ (settings.scale # R(0) => w.y = [k |-> "num", neg |-> FALSE, m |-> 0]))

\* C5 is met where a path with a top-edge and a bottom-edge point is
\* written at a scale that does not divide its coordinates.
C5_Witness ==
    /\ phase = "done"
    /\ settings.scale = R(3)
    /\ \E k \in 1..Len(InBucketOrder(groups, 1)) :
           LET q == InBucketOrder(groups, 1)[k]
           IN  /\ Len(q.points) >= 3
               /\ q.points[1].y = origin.y
               /\ q.points[3].y = RAdd(origin.y, origin.height)
               /\ C5_Written(k, 1).y = [k |-> "num", neg |-> FALSE, m |-> 3333]
               /\ C5_Written(k, 3).y = [k |-> "num", neg |-> FALSE, m |-> 0]

C7_IsPathsComment(l) == l.op = ";" /\ l.tag = "Paths"

C7_EmptyPathsEmitNothing ==
    phase = "done" =>
        LET numbered == IndicesOf(lines, IsPathComment)
        IN  /\ Len(numbered) = Len(NonEmptyPaths(paths))
            /\ \A k \in 1..Len(numbered) : lines[numbered[k]].n = k
----------------------------------------------------------------------------
(* The host document *)

PAGE == 0

\* A scene node. parent is a node id or PAGE; children is the child list of
\* a container; strokes is the node's paint list; characters and mixed
\* (fontName === figma.mixed) matter for text nodes only.
SceneNode(type, parent, x, y, width, height, children, strokes, characters, mixed) ==
    [type |-> type, parent |-> parent, x |-> R(x), y |-> R(y),
     width |-> R(width), height |-> R(height), children |-> children,
     strokes |-> strokes, characters |-> characters, mixed |-> mixed,
     textAutoResize |-> "NONE", name |-> ""]

Solid(r, g, b, opacity) ==
    [type |-> "SOLID", color |-> [r |-> r, g |-> g, b |-> b], opacity |-> opacity]

\* node.absoluteTransform[0][2] and [1][2]: the offsets of the enclosing
\* frames added up (the document holds no rotated node).
RECURSIVE AbsX(_, _)
AbsX(d, id) == IF id = PAGE THEN R(0) ELSE RAdd(d[id].x, AbsX(d, d[id].parent))

RECURSIVE AbsY(_, _)
AbsY(d, id) == IF id = PAGE THEN R(0) ELSE RAdd(d[id].y, AbsY(d, d[id].parent))

absoluteTransform(d, id) ==
    <<<<R(1), R(0), AbsX(d, id)>>, <<R(0), R(1), AbsY(d, id)>>>>

absoluteBoundingBox(d, id) ==
    [x |-> AbsX(d, id), y |-> AbsY(d, id), width |-> d[id].width, height |-> d[id].height]

transformPoint(x, y, transform) ==
    [x |-> RAdd(RAdd(RMul(transform[1][1], x), RMul(transform[1][2], y)), transform[1][3]),
     y |-> RAdd(RAdd(RMul(transform[2][1], x), RMul(transform[2][2], y)), transform[2][3])]

getNodeStrokeColor(d, id) ==
    IF Len(d[id].strokes) > 0 /\ d[id].strokes[1].type = "SOLID"
    THEN LET stroke == d[id].strokes[1]
         IN  <<Rgba(stroke.color.r, stroke.color.g, stroke.color.b,
                    IF stroke.opacity # <<>> THEN stroke.opacity[1] ELSE R(1))>>
    ELSE <<>>

----------------------------------------------------------------------------
(* Shape Normalizer *)

rectangleToPath(d, id) ==
    LET transform == absoluteTransform(d, id)
        w == d[id].width
        h == d[id].height
        corners == <<<<R(0), R(0)>>, <<w, R(0)>>, <<w, h>>, <<R(0), h>>, <<R(0), R(0)>>>>
    IN  Path([i \in 1..5 |-> transformPoint(corners[i][1], corners[i][2], transform)],
             TRUE, <<>>)

lineToPath(d, id) ==
    LET transform == absoluteTransform(d, id)
    IN  Path(<<transformPoint(R(0), R(0), transform),
               transformPoint(d[id].width, R(0), transform)>>, FALSE, <<>>)

RECURSIVE extractPaths(_, _)
RECURSIVE ExtractChildren(_, _, _)

\* The loop over container.children of extractPaths.
ExtractChildren(d, children, i) ==
    IF i > Len(children) THEN <<>>
    ELSE extractPaths(d, children[i]) \o ExtractChildren(d, children, i + 1)

\* The document holds no node with vectorPaths and no ellipse.
extractPaths(d, id) ==
    LET color == getNodeStrokeColor(d, id)
    IN  CASE d[id].type = "RECTANGLE" -> <<[rectangleToPath(d, id) EXCEPT !.color = color]>>
          [] d[id].type = "LINE" -> <<[lineToPath(d, id) EXCEPT !.color = color]>>
          [] d[id].type = "TEXT" -> <<>>
          [] d[id].type \in {"FRAME", "GROUP"} -> ExtractChildren(d, d[id].children, 1)
          [] OTHER -> <<>>

RECURSIVE collectTextNodes(_, _)
RECURSIVE CollectChildren(_, _, _)

CollectChildren(d, children, i) ==
    IF i > Len(children) THEN <<>>
    ELSE collectTextNodes(d, children[i]) \o CollectChildren(d, children, i + 1)

collectTextNodes(d, id) ==
    IF d[id].type = "TEXT" THEN <<id>>
    ELSE CollectChildren(d, d[id].children, 1)
----------------------------------------------------------------------------
(* Path data: parsePathData *)

\* A path data string is the sequence of its characters.
CommandLetters == {"M", "L", "C", "Q", "Z", "m", "l", "c", "q", "z"}

Separators == {" ", ","}

\* data.match(/[MLCQZ][^MLCQZ]*/gi) || []: each command letter opens a
\* command that runs up to the next command letter; what precedes the first
\* command letter belongs to no command.
RECURSIVE MatchLoop(_, _, _)
MatchLoop(data, i, commands) ==
    IF i > Len(data) THEN commands
    ELSE IF data[i] \in CommandLetters
    THEN MatchLoop(data, i + 1, Append(commands, <<data[i]>>))
    ELSE IF commands = <<>> THEN MatchLoop(data, i + 1, commands)
    ELSE MatchLoop(data, i + 1,
                   [commands EXCEPT ![Len(commands)] = Append(@, data[i])])

match(data) == MatchLoop(data, 1, <<>>)

\* s.trim().split(/[\s,]+/).filter(s => s): the non-empty tokens of s.
RECURSIVE SplitLoop(_, _, _, _)
SplitLoop(s, i, token, tokens) ==
    IF i > Len(s)
    THEN IF token = <<>> THEN tokens ELSE Append(tokens, token)
    ELSE IF s[i] \in Separators
    THEN SplitLoop(s, i + 1, <<>>,
                   IF token = <<>> THEN tokens ELSE Append(tokens, token))
    ELSE SplitLoop(s, i + 1, Append(token, s[i]), tokens)

split(s) == SplitLoop(s, 1, <<>>, <<>>)

DecimalDigits == <<"0", "1", "2", "3", "4", "5", "6", "7", "8", "9">>

IsDigit(c) == \E k \in 1..Len(DecimalDigits) : DecimalDigits[k] = c

DigitValue(c) == (CHOOSE k \in 1..Len(DecimalDigits) : DecimalDigits[k] = c) - 1

\* The index after the digits of s that start at index i.
RECURSIVE DigitsEnd(_, _)
DigitsEnd(s, i) ==
    IF i <= Len(s) /\ IsDigit(s[i]) THEN DigitsEnd(s, i + 1) ELSE i

\* The value of the digits s[i], ..., s[j - 1].
RECURSIVE DigitsValue(_, _, _)
DigitsValue(s, i, j) ==
    IF i >= j THEN 0 ELSE DigitsValue(s, i, j - 1) * 10 + DigitValue(s[j - 1])

RECURSIVE Pow10(_)
Pow10(k) == IF k = 0 THEN 1 ELSE 10 * Pow10(k - 1)

\* parseFloat: the longest prefix that is a decimal literal (sign, digits,
\* fraction), whatever follows it; NaN when no prefix is one.  The data of
\* the model holds no exponent and no "Infinity".
parseFloat(s) ==
    LET start == IF s # <<>> /\ s[1] \in {"-", "+"} THEN 2 ELSE 1
        sign == IF s # <<>> /\ s[1] = "-" THEN -1 ELSE 1
        intEnd == DigitsEnd(s, start)
        fracStart == IF intEnd <= Len(s) /\ s[intEnd] = "." THEN intEnd + 1 ELSE intEnd
        fracEnd == DigitsEnd(s, fracStart)
        scale == Pow10(fracEnd - fracStart)
    IN  IF intEnd = start /\ fracEnd = fracStart THEN NaN
        ELSE Rat(sign * (DigitsValue(s, start, intEnd) * scale
                         + DigitsValue(s, fracStart, fracEnd)), scale)

\* cmd[0].toUpperCase()
CommandType(cmd) ==
    CASE cmd[1] = "m" -> "M" [] cmd[1] = "l" -> "L" [] cmd[1] = "c" -> "C"
      [] cmd[1] = "q" -> "Q" [] cmd[1] = "z" -> "Z"
      [] OTHER -> cmd[1]

\* cmd.slice(1).trim().split(/[\s,]+/).filter(s => s).map(parseFloat)
CommandArgs(cmd) ==
    LET tokens == split(Tail(cmd))
    IN  [k \in 1..Len(tokens) |-> parseFloat(tokens[k])]

\* a !== b of two numbers: NaN differs from every number, itself included.
StrictNotEqual(a, b) == IsNaN(a) \/ IsNaN(b) \/ a # b

\* linearizeQuadraticBezier(p0, p1, p2): the control points of the cubic
\* that it hands to linearizeCubicBezier, p being <<p0, p1, p2>>.
QuadraticAsCubic(p) ==
    <<p[1],
      [x |-> RAdd(p[1].x, RMul(Rat(2, 3), RSub(p[2].x, p[1].x))),
       y |-> RAdd(p[1].y, RMul(Rat(2, 3), RSub(p[2].y, p[1].y)))],
      [x |-> RAdd(p[3].x, RMul(Rat(2, 3), RSub(p[2].x, p[3].x))),
       y |-> RAdd(p[3].y, RMul(Rat(2, 3), RSub(p[2].y, p[3].y)))],
      p[3]>>

\* The locals of parsePathData between two commands; thrown once a
\* linearization has ended the call with its RangeError.
ParseState(points, closed, currentX, currentY, thrown) ==
    [points |-> points, closed |-> closed, currentX |-> currentX,
     currentY |-> currentY, thrown |-> thrown]

\* case 'Z'
ClosePath(st) ==
    [st EXCEPT !.closed = TRUE,
               !.points = IF /\ Len(@) > 0
                             /\ \/ StrictNotEqual(@[Len(@)].x, @[1].x)
                                \/ StrictNotEqual(@[Len(@)].y, @[1].y)
                          THEN Append(@, @[1]) ELSE @]

\* case 'M' and case 'L'
LineTo(st, args, transform) ==
    IF Len(args) >= 2
    THEN [st EXCEPT !.currentX = args[1], !.currentY = args[2],
                    !.points = Append(@, transformPoint(args[1], args[2], transform))]
    ELSE st

\* The control points p0, p1, p2, p3 that case 'C' passes to
\* linearizeCubicBezier, and those that case 'Q' makes it be called with.
ControlPoints(st, type, args, transform) ==
    IF type = "C"
    THEN <<transformPoint(st.currentX, st.currentY, transform),
           transformPoint(args[1], args[2], transform),
           transformPoint(args[3], args[4], transform),
           transformPoint(args[5], args[6], transform)>>
    ELSE QuadraticAsCubic(<<transformPoint(st.currentX, st.currentY, transform),
                            transformPoint(args[1], args[2], transform),
                            transformPoint(args[3], args[4], transform)>>)

\* points.push(...bezierPoints) and the new current point, or the end of
\* the call when the linearization has thrown.
PushCurve(st, bezierPoints, x, y) ==
    IF bezierPoints.thrown THEN [st EXCEPT !.thrown = TRUE]
    ELSE [st EXCEPT !.points = @ \o bezierPoints.points,
                    !.currentX = x, !.currentY = y]

\* case 'C' (six arguments) and case 'Q' (four).
CurveTo(st, type, args, transform) ==
    LET n == IF type = "C" THEN 6 ELSE 4
    IN  IF Len(args) >= n
        THEN LET p == ControlPoints(st, type, args, transform)
             IN  PushCurve(st,
                           linearizeCubicBezier(p[1], p[2], p[3], p[4], BEZIER_TOLERANCE, 1),
                           args[n - 1], args[n])
        ELSE st

\* One turn of the loop over the commands.
ParseCommand(st, cmd, transform) ==
    LET type == CommandType(cmd)
        args == CommandArgs(cmd)
    IN  CASE type = "M" -> LineTo(st, args, transform)
          [] type = "L" -> LineTo(st, args, transform)
          [] type \in {"C", "Q"} -> CurveTo(st, type, args, transform)
          [] type = "Z" -> ClosePath(st)
          [] OTHER -> st

RECURSIVE ParseLoop(_, _, _, _)
ParseLoop(st, commands, i, transform) ==
    IF i > Len(commands) \/ st.thrown THEN st
    ELSE ParseLoop(ParseCommand(st, commands[i], transform), commands, i + 1, transform)

\* parsePathData(data, node), given the node's absoluteTransform.
parsePathData(data, transform) ==
    ParseLoop(ParseState(<<>>, FALSE, R(0), R(0), FALSE), match(data), 1, transform)

----------------------------------------------------------------------------
(* parsePathData applied *)

MaxCommands == 3    \* commands of one path data string

\* The commands the data strings are made of: well formed ones ("M0 0",
\* "M8,0", "L4 4", "L0 0", "L-4 .5", "Z", "z", "C4 0 4 4 0 4", "Q4 4 8 0"),
\* ones with too few arguments ("L4", "C4 0", "Q4") and ones with a token
\* that is no number ("Lx 4", "L4x 4", "Cx x 4 4 0 4").
PathDataParts ==
    {
     <<"M", "0", " ", "0">>,
     <<"M", "8", ",", "0">>,
     <<"L", "4", " ", "4">>,
     <<"L", "0", " ", "0">>,
     <<"L", "4">>,
     <<"L", "x", " ", "4">>,
     <<"L", "4", "x", " ", "4">>,
     <<"L", "-", "4", " ", ".", "5">>,
     <<"Z">>,
     <<"z">>,
     <<"C", "4", " ", "0", " ", "4", " ", "4", " ", "0", " ", "4">>,
     <<"C", "x", " ", "x", " ", "4", " ", "4", " ", "0", " ", "4">>,
     <<"C", "4", " ", "0">>,
     <<"Q", "4", " ", "4", " ", "8", " ", "0">>,
     <<"Q", "4">>
    }

RECURSIVE Concat(_)
Concat(ss) == IF ss = <<>> THEN <<>> ELSE Head(ss) \o Concat(Tail(ss))

PathData == {Concat(ss) : ss \in SeqsUpTo(PathDataParts, MaxCommands)}

\* The absoluteTransform of a node at (7, 9) of the page.
NodeTransform == <<<<R(1), R(0), R(7)>>, <<R(0), R(1), R(9)>>>>

InitParse ==
    /\ paths = <<>>
    /\ settings = NoSettings
    /\ origin = NoOrigin
    /\ groups = <<>>
    /\ lines = <<>>
    /\ phase = "input"
    /\ HostIdle
    /\ curve = NoCurve
    /\ \E data \in PathData : parsed = Parsed(data, <<>>, FALSE, FALSE)

CallParse ==
    /\ parsed.pc = "input"
    /\ LET st == parsePathData(parsed.data, NodeTransform)
       IN  parsed' = [parsed EXCEPT !.pc = "called",
                                    !.points = IF st.thrown THEN <<>> ELSE st.points,
                                    !.closed = ~st.thrown /\ st.closed,
                                    !.thrown = st.thrown]
    /\ UNCHANGED <<paths, settings, origin, groups, lines, phase, curve>>
    /\ UNCHANGED hostVars

NextParse == CallParse

SpecParse == InitParse /\ [][NextParse]_vars

----------------------------------------------------------------------------
(* Stroke Font Engine *)

\* HERSHEY_FONT[char] for the characters the document uses, as <<glyph>>,
\* or <<>> for a character the table lacks.
HERSHEY_FONT(char) ==
    CASE char = " " -> <<[width |-> 16, strokes |-> <<>>]>>
      [] char = "-" -> <<[width |-> 26, strokes |-> <<<<4, 13, 22, 13>>>>]>>
      [] char = "I" -> <<[width |-> 8, strokes |-> <<<<4, 2, 4, 23>>>>]>>
      [] char = "L" -> <<[width |-> 17, strokes |-> <<<<4, 2, 4, 23>>, <<4, 23, 16, 23>>>>]>>
      [] OTHER -> <<>>

SpaceWidth == 16

LineHeight == 25

\* text.split('\n'), a text being a sequence of characters.
RECURSIVE SplitLines(_, _)
SplitLines(text, cur) ==
    IF text = <<>> THEN <<cur>>
    ELSE IF Head(text) = "\n" THEN <<cur>> \o SplitLines(Tail(text), <<>>)
    ELSE SplitLines(Tail(text), Append(cur, Head(text)))

GlyphWidth(char) ==
    IF HERSHEY_FONT(char) # <<>> THEN HERSHEY_FONT(char)[1].width ELSE SpaceWidth

RECURSIVE LineWidth(_)
LineWidth(line) == IF line = <<>> THEN 0 ELSE GlyphWidth(Head(line)) + LineWidth(Tail(line))

RECURSIVE MaxLineWidth(_)
MaxLineWidth(ls) ==
    IF ls = <<>> THEN 0
    ELSE LET w == LineWidth(Head(ls))
             m == MaxLineWidth(Tail(ls))
         IN  IF w > m THEN w ELSE m

measureHersheyText(text) ==
    LET ls == SplitLines(text, <<>>)
    IN  [width |-> MaxLineWidth(ls), height |-> Len(ls) * LineHeight]

\* The points of one stroke (x1, y1, x2, y2, ...) of a glyph at cursorX.
StrokePoints(stroke, cursorX, lineIndex, scaleX, scaleY, transform) ==
    [k \in 1..((Len(stroke) + 1) \div 2) |->
        LET localX == RMul(R(cursorX + stroke[2 * k - 1]), scaleX)
            localY == RMul(R(lineIndex * LineHeight + stroke[2 * k]), scaleY)
        IN  transformPoint(localX, localY, transform)]

\* The loop over glyph.strokes.
RECURSIVE GlyphPaths(_, _, _, _, _, _, _, _)
GlyphPaths(strokes, i, cursorX, lineIndex, scaleX, scaleY, transform, color) ==
    IF i > Len(strokes) THEN <<>>
    ELSE LET rest == GlyphPaths(strokes, i + 1, cursorX, lineIndex, scaleX, scaleY,
                                transform, color)
         IN  IF Len(strokes[i]) < 4 THEN rest
             ELSE LET points == StrokePoints(strokes[i], cursorX, lineIndex, scaleX, scaleY,
                                             transform)
                  IN  (IF Len(points) >= 2 THEN <<Path(points, FALSE, color)>> ELSE <<>>)
                      \o rest

\* The loop over the characters of one line, a character the table lacks
\* leaving the cursor where it is (variant).
RECURSIVE LinePathsMissingNoAdvance(_, _, _, _, _, _, _)
LinePathsMissingNoAdvance(line, cursorX, lineIndex, scaleX, scaleY, transform, color) ==
    IF line = <<>> THEN <<>>
    ELSE LET glyph == HERSHEY_FONT(Head(line))
         IN  IF glyph = <<>>
             THEN LinePathsMissingNoAdvance(Tail(line), cursorX, lineIndex, scaleX,
                                            scaleY, transform, color)
             ELSE GlyphPaths(glyph[1].strokes, 1, cursorX, lineIndex, scaleX, scaleY,
                             transform, color)
                  \o LinePathsMissingNoAdvance(Tail(line), cursorX + glyph[1].width,
                                               lineIndex, scaleX, scaleY, transform, color)

\* The loop over the characters of one line.
RECURSIVE LinePaths(_, _, _, _, _, _, _)
LinePaths(line, cursorX, lineIndex, scaleX, scaleY, transform, color) ==
    IF line = <<>> THEN <<>>
    ELSE LET glyph == HERSHEY_FONT(Head(line))
         IN  IF glyph = <<>>
             THEN LinePaths(Tail(line), cursorX + SpaceWidth, lineIndex, scaleX, scaleY,
                            transform, color)
             ELSE GlyphPaths(glyph[1].strokes, 1, cursorX, lineIndex, scaleX, scaleY,
                             transform, color)
                  \o LinePaths(Tail(line), cursorX + glyph[1].width, lineIndex, scaleX,
                               scaleY, transform, color)

\* The loop over the lines of the text.
RECURSIVE TextPaths(_, _, _, _, _, _)
TextPaths(ls, lineIndex, scaleX, scaleY, transform, color) ==
    IF lineIndex >= Len(ls) THEN <<>>
    ELSE LinePaths(ls[lineIndex + 1], 0, lineIndex, scaleX, scaleY, transform, color)
         \o TextPaths(ls, lineIndex + 1, scaleX, scaleY, transform, color)

\* The paths textNodeToPaths returns for text node id of document d.
textNodeToPaths(d, id) ==
    LET text == d[id].characters
        hersheySize == measureHersheyText(text)
    IN  IF text = <<>> THEN <<>>
        ELSE IF hersheySize.width = 0 \/ hersheySize.height = 0 THEN <<>>
        ELSE TextPaths(SplitLines(text, <<>>), 0,
                       RDiv(d[id].width, R(hersheySize.width)),
                       RDiv(d[id].height, R(hersheySize.height)),
                       absoluteTransform(d, id), getNodeStrokeColor(d, id))

\* The document after textNodeToPaths(id): a text that is not empty is set
\* to auto-resize before it is measured.
textNodeToPathsDoc(d, id) ==
    IF d[id].characters = <<>> THEN d
    ELSE [d EXCEPT ![id].textAutoResize = "WIDTH_AND_HEIGHT"]

----------------------------------------------------------------------------
(* textNodeToPaths applied *)

MaxChars == 3   \* characters of the text node

\* The characters tried: two with one stroke each, one with two strokes, the
\* space (a glyph of no strokes), the line break, and the tab (a character
\* the table lacks).
TextChars == {"I", "-", "L", " ", "\n", "\t"}

\* The widths and heights the host reports for the node once it is set to
\* auto-resize.
TextWidths == {0, 34}

TextHeights == {0, 50}

InitText ==
    /\ paths = <<>>
    /\ settings = NoSettings
    /\ origin = NoOrigin
    /\ groups = <<>>
    /\ lines = <<>>
    /\ phase = "input"
    /\ curve = NoCurve
    /\ parsed = NoParse
    /\ \E text \in SeqsUpTo(TextChars, MaxChars), w \in TextWidths, h \in TextHeights :
           doc = <<SceneNode("TEXT", PAGE, 7, 9, w, h, <<>>, <<>>, text, FALSE)>>
    /\ selection = <<>>
    /\ runs = <<>>
    /\ msgs = <<>>
    /\ stored = <<>>
    /\ pluginClosed = FALSE

CallText ==
    /\ phase = "input"
    /\ paths' = textNodeToPaths(doc, 1)
    /\ doc' = textNodeToPathsDoc(doc, 1)
    /\ phase' = "done"
    /\ UNCHANGED <<settings, origin, groups, lines, curve, parsed>>
    /\ UNCHANGED <<selection, runs, msgs, stored, pluginClosed>>

NextText == CallText

SpecText == InitText /\ [][NextText]_vars

----------------------------------------------------------------------------
(* Origin Resolver *)

PosInfinity == [n |-> 1, d |-> 0]

NegInfinity == [n |-> -1, d |-> 0]

MathMin(a, b) == IF RLess(b, a) THEN b ELSE a

MathMax(a, b) == IF RLess(a, b) THEN b ELSE a

\* The loop that folds the selected nodes' absoluteBoundingBox into
\* [minX, minY, maxX, maxY].
RECURSIVE BoundsLoop(_, _, _, _)
BoundsLoop(d, sel, i, acc) ==
    IF i > Len(sel) THEN acc
    ELSE LET bounds == absoluteBoundingBox(d, sel[i])
         IN  BoundsLoop(d, sel, i + 1,
                        [minX |-> MathMin(acc.minX, bounds.x),
                         minY |-> MathMin(acc.minY, bounds.y),
                         maxX |-> MathMax(acc.maxX, RAdd(bounds.x, bounds.width)),
                         maxY |-> MathMax(acc.maxY, RAdd(bounds.y, bounds.height))])

RemoveId(seq, id) == SelectSeq(seq, LAMBDA e : e # id)

\* frame.appendChild(node): the node leaves its parent's child list and
\* joins the frame's.
appendChild(d, frame, id) ==
    LET old == d[id].parent
        d1  == IF old = PAGE THEN d
               ELSE [d EXCEPT ![old].children = RemoveId(@, id)]
        d2  == [d1 EXCEPT ![frame].children = Append(RemoveId(@, id), id)]
    IN  [d2 EXCEPT ![id].parent = frame]

\* MoveLoop without the repositioning: each node keeps its local x and y.
RECURSIVE MoveLoopKeepLocal(_, _, _, _)
MoveLoopKeepLocal(d, sel, i, frame) ==
    IF i > Len(sel) THEN d
    ELSE MoveLoopKeepLocal(appendChild(d, frame, sel[i]), sel, i + 1, frame)

\* The loop that moves the selected nodes into the new frame.
RECURSIVE MoveLoop(_, _, _, _)
MoveLoop(d, sel, i, frame) ==
    IF i > Len(sel) THEN d
    ELSE LET absX == AbsX(d, sel[i])
             absY == AbsY(d, sel[i])
             d1   == appendChild(d, frame, sel[i])
             d2   == [d1 EXCEPT ![sel[i]].x = RSub(absX, d1[frame].x),
                                ![sel[i]].y = RSub(absY, d1[frame].y)]
         IN  MoveLoop(d2, sel, i + 1, frame)

BoundsStroke == Solid(Rat(1, 2), Rat(1, 2), R(1), <<Rat(1, 2)>>)

\* createBoundsFrame with the margin added once to the size, not twice.
createBoundsFrameOneMargin(d, b, marginPx) ==
    Append(d, [type |-> "FRAME", parent |-> PAGE,
               x |-> RSub(b.minX, marginPx),
               y |-> RSub(b.minY, marginPx),
               width |-> RAdd(RSub(b.maxX, b.minX), marginPx),
               height |-> RAdd(RSub(b.maxY, b.minY), marginPx),
               children |-> <<>>, strokes |-> <<BoundsStroke>>,
               characters |-> <<>>, mixed |-> FALSE,
               textAutoResize |-> "NONE", name |-> "G-Code Bounds"])

\* figma.createFrame() and the assignments that size and style the frame.
createBoundsFrame(d, b, marginPx) ==
    Append(d, [type |-> "FRAME", parent |-> PAGE,
               x |-> RSub(b.minX, marginPx),
               y |-> RSub(b.minY, marginPx),
               width |-> RAdd(RSub(b.maxX, b.minX), RMul(marginPx, R(2))),
               height |-> RAdd(RSub(b.maxY, b.minY), RMul(marginPx, R(2))),
               children |-> <<>>, strokes |-> <<BoundsStroke>>,
               characters |-> <<>>, mixed |-> FALSE,
               textAutoResize |-> "NONE", name |-> "G-Code Bounds"])

OriginOf(d, frame, ref) ==
    [x |-> AbsX(d, frame), y |-> AbsY(d, frame), height |-> d[frame].height, frame |-> ref]

\* determineOrigin with the common-parent test made before the single-frame
\* test.
determineOriginParentFirst(d, sel, st) ==
    LET firstParent == d[sel[1]].parent
    IN  IF /\ firstParent # PAGE
           /\ d[firstParent].type = "FRAME"
           /\ \A i \in 1..Len(sel) : d[sel[i]].parent = firstParent
        THEN [origin |-> OriginOf(d, firstParent, firstParent), doc |-> d]
        ELSE IF Len(sel) = 1 /\ d[sel[1]].type = "FRAME"
        THEN [origin |-> OriginOf(d, sel[1], sel[1]), doc |-> d]
        ELSE LET b == BoundsLoop(d, sel, 1,
                                 [minX |-> PosInfinity, minY |-> PosInfinity,
                                  maxX |-> NegInfinity, maxY |-> NegInfinity])
                 marginPx == RMul(R(5), st.scale)
                 d1 == createBoundsFrame(d, b, marginPx)
                 frame == Len(d1)
                 d2 == MoveLoop(d1, sel, 1, frame)
             IN  [origin |-> OriginOf(d2, frame, 0), doc |-> d2]

\* determineOrigin(selection, settings) on document d: [origin, doc], the
\* Origin returned and the document it leaves.
determineOrigin(d, sel, st) ==
    IF Len(sel) = 1 /\ d[sel[1]].type = "FRAME"
    THEN [origin |-> OriginOf(d, sel[1], sel[1]), doc |-> d]
    ELSE LET firstParent == d[sel[1]].parent
         IN  IF /\ firstParent # PAGE
                /\ d[firstParent].type = "FRAME"
                /\ \A i \in 1..Len(sel) : d[sel[i]].parent = firstParent
             THEN [origin |-> OriginOf(d, firstParent, firstParent), doc |-> d]
             ELSE LET b == BoundsLoop(d, sel, 1,
                                      [minX |-> PosInfinity, minY |-> PosInfinity,
                                       maxX |-> NegInfinity, maxY |-> NegInfinity])
                      marginPx == RMul(R(5), st.scale)
                      d1 == createBoundsFrame(d, b, marginPx)
                      frame == Len(d1)
                      d2 == MoveLoop(d1, sel, 1, frame)
                  IN  [origin |-> OriginOf(d2, frame, 0), doc |-> d2]

----------------------------------------------------------------------------
(* The plugin: figma.ui.onmessage and generateGCode *)

MaxRuns == 2    \* 'generate' messages the UI sends

NoSelectionText == "Please select one or more vector objects"

NoPathsText == "No vector paths found in selection"

\* A call of the 'generate' branch of figma.ui.onmessage: pc is "saving"
\* (awaiting clientStorage.setAsync), "loading" (generateGCode awaiting
\* loadFontAsync for textNodes[ti]; ci is the character whose font is
\* awaited when fonts are mixed, else 0) or "done"; the other fields are
\* generateGCode's locals, but log, which is bookkeeping: the font loads
\* the call has requested and seen settle and the calls of textNodeToPaths
\* it has made, in order.
NewRun(st) ==
    [pc |-> "saving", settings |-> st, selection |-> <<>>, origin |-> NoOrigin,
     allPaths |-> <<>>, textNodes |-> <<>>, ti |-> 0, ci |-> 0, len |-> 0,
     log |-> <<>>]

\* An entry of a run's log: ev is "request", "loaded" or "failed" (a
\* loadFontAsync made for textNodes[ti], for its character ci when fonts are
\* mixed, else ci = 0) or "paths" (textNodeToPaths called on textNodes[ti]).
Event(ev, ti, ci) == [ev |-> ev, ti |-> ti, ci |-> ci]

\* A message to the UI; run, the call that posted it, is bookkeeping.
Message(type, message, gcode, pathCount, lineCount, r) ==
    [type |-> type, message |-> message, gcode |-> gcode, pathCount |-> pathCount,
     lineCount |-> lineCount, run |-> r]

ErrorMessage(message, r) == Message("error", message, <<>>, 0, 0, r)

IsCodeLine(l) == ~IsBlank(l) /\ ~IsComment(l)

\* Finish without the test for zero paths: a program is posted always.
FinishUnchecked(run, d, r) ==
    LET gcode == pathsToGCode(run.allPaths, run.settings, run.origin)
    IN  [run |-> [run EXCEPT !.pc = "done"], doc |-> d,
         post |-> <<Message("gcode", "", gcode, Len(run.allPaths),
                            CountLines(gcode, IsCodeLine), r)>>]

\* generateGCode from "if (allPaths.length === 0)" to its end.
Finish(run, d, r) ==
    IF Len(run.allPaths) = 0
    THEN [run |-> [run EXCEPT !.pc = "done"], doc |-> d,
          post |-> <<ErrorMessage(NoPathsText, r)>>]
    ELSE LET gcode == pathsToGCode(run.allPaths, run.settings, run.origin)
         IN  [run |-> [run EXCEPT !.pc = "done"], doc |-> d,
              post |-> <<Message("gcode", "", gcode, Len(run.allPaths),
                                 CountLines(gcode, IsCodeLine), r)>>]

\* generateGCode from the top of the loop over textNodes, at textNodes[ti],
\* up to its next await or its end.
RECURSIVE TextLoop(_, _, _)
TextLoop(run, d, r) ==
    IF run.ti > Len(run.textNodes) THEN Finish(run, d, r)
    ELSE LET textNode == run.textNodes[run.ti]
             len == Len(d[textNode].characters)
         IN  IF ~d[textNode].mixed
             THEN [run |-> [run EXCEPT !.pc = "loading", !.ci = 0, !.len = 0,
                                       !.log = Append(@, Event("request", run.ti, 0))],
                   doc |-> d, post |-> <<>>]
             ELSE IF len > 0
             THEN [run |-> [run EXCEPT !.pc = "loading", !.ci = 1, !.len = len,
                                       !.log = Append(@, Event("request", run.ti, 1))],
                   doc |-> d, post |-> <<>>]
             ELSE TextLoop([run EXCEPT !.allPaths = @ \o textNodeToPaths(d, textNode),
                                       !.ti = @ + 1,
                                       !.log = Append(@, Event("paths", run.ti, 0))],
                           textNodeToPathsDoc(d, textNode), r)

RECURSIVE ExtractAll(_, _, _)
ExtractAll(d, sel, i) ==
    IF i > Len(sel) THEN <<>> ELSE extractPaths(d, sel[i]) \o ExtractAll(d, sel, i + 1)

RECURSIVE CollectAll(_, _, _)
CollectAll(d, sel, i) ==
    IF i > Len(sel) THEN <<>> ELSE collectTextNodes(d, sel[i]) \o CollectAll(d, sel, i + 1)

\* generateGCode without the test for an empty selection: the empty loops
\* collect nothing and the run falls through to the test for zero paths.
generateGCodeUnchecked(run, d, sel, r) ==
    IF Len(sel) = 0
    THEN Finish(run, d, r)
    ELSE LET o == determineOrigin(d, sel, run.settings)
         IN  TextLoop([run EXCEPT !.selection = sel,
                                  !.origin = o.origin,
                                  !.allPaths = ExtractAll(o.doc, sel, 1),
                                  !.textNodes = CollectAll(o.doc, sel, 1),
                                  !.ti = 1],
                      o.doc, r)

\* generateGCode from its first line up to its first await or its end.
generateGCode(run, d, sel, r) ==
    IF Len(sel) = 0
    THEN [run |-> [run EXCEPT !.pc = "done"], doc |-> d,
          post |-> <<ErrorMessage(NoSelectionText, r)>>]
    ELSE LET o == determineOrigin(d, sel, run.settings)
         IN  TextLoop([run EXCEPT !.selection = sel,
                                  !.origin = o.origin,
                                  !.allPaths = ExtractAll(o.doc, sel, 1),
                                  !.textNodes = CollectAll(o.doc, sel, 1),
                                  !.ti = 1],
                      o.doc, r)

\* The document the plugin is run on:
\*   1 frame (10,20) 100x50 on the page
\*     2 frame (5,5) 40x30            3 rectangle (1,2) 10x4 in frame 2
\*     4 text "I-" (50,10) 34x50, mixed fonts
\*   5 rectangle (200,30) 20x10 on the page
\*   6 text " " (300,40) 16x25 on the page
InitialDocument ==
    <<SceneNode("FRAME", PAGE, 10, 20, 100, 50, <<2, 4>>, <<>>, <<>>, FALSE),
      SceneNode("FRAME", 1, 5, 5, 40, 30, <<3>>, <<>>, <<>>, FALSE),
      SceneNode("RECTANGLE", 2, 1, 2, 10, 4, <<>>,
                <<Solid(R(1), R(0), R(0), <<>>)>>, <<>>, FALSE),
      SceneNode("TEXT", 1, 50, 10, 34, 50, <<>>, <<>>, <<"I", "-">>, TRUE),
      SceneNode("RECTANGLE", PAGE, 200, 30, 20, 10, <<>>,
                <<Solid(R(0), R(0), R(1), <<Rat(1, 2)>>)>>, <<>>, FALSE),
      SceneNode("TEXT", PAGE, 300, 40, 16, 25, <<>>, <<>>, <<" ">>, FALSE)>>

\* What the user selects: nothing; frame 2 (a frame inside a frame); frame
\* 2 and text 4 (same parent); rectangle 3 and text 4 (different parents
\* at first); text 6 (on the page).
Selections == {<<>>, <<2>>, <<2, 4>>, <<3, 4>>, <<6>>}

\* The user's edit: the frame on the page dragged between x = 10 and x = 17.
OuterFrame ==
    CHOOSE id \in 1..Len(InitialDocument) :
        InitialDocument[id].type = "FRAME" /\ InitialDocument[id].parent = PAGE

MovedTo(x) == IF x = R(10) THEN R(17) ELSE R(10)

MsgSettings == {Settings("mm", R(1), 1000), Settings("mm", R(0), 1000)}

Init ==
    /\ paths = <<>>
    /\ settings = NoSettings
    /\ origin = NoOrigin
    /\ groups = <<>>
    /\ lines = <<>>
    /\ phase = "input"
    /\ doc = InitialDocument
    /\ selection = <<>>
    /\ runs = <<>>
    /\ msgs = <<>>
    /\ stored = <<>>
    /\ pluginClosed = FALSE
    /\ curve = NoCurve
    /\ parsed = NoParse

\* The UI posts {type: 'generate', settings}: onmessage starts saving them.
UiGenerate(st) ==
    /\ ~pluginClosed
    /\ Len(runs) < MaxRuns
    /\ runs' = Append(runs, NewRun(st))
    /\ stored' = <<st>>
    /\ UNCHANGED <<doc, selection, msgs, pluginClosed>>
    /\ UNCHANGED pureVars

\* The UI posts {type: 'cancel'}.
UiCancel ==
    /\ ~pluginClosed
    /\ pluginClosed' = TRUE
    /\ UNCHANGED <<doc, selection, runs, msgs, stored>>
    /\ UNCHANGED pureVars

Resume(r, g) ==
    /\ runs' = [runs EXCEPT ![r] = g.run]
    /\ doc' = g.doc
    /\ msgs' = msgs \o g.post
    /\ UNCHANGED <<selection, stored, pluginClosed>>
    /\ UNCHANGED pureVars

\* setAsync has resolved: onmessage calls generateGCode, which runs up to
\* its first await.
SaveDone(r) ==
    /\ ~pluginClosed
    /\ runs[r].pc = "saving"
    /\ Resume(r, generateGCode(runs[r], doc, selection, r))

\* FontLoaded without the loop over the characters' fonts: textNodeToPaths
\* is called once the first font awaited has loaded.
FontLoadedFirst(r) ==
    /\ ~pluginClosed
    /\ runs[r].pc = "loading"
    /\ LET run == runs[r]
           textNode == run.textNodes[run.ti]
           loaded == Append(run.log, Event("loaded", run.ti, run.ci))
       IN  Resume(r, TextLoop([run EXCEPT !.allPaths = @ \o textNodeToPaths(doc, textNode),
                                          !.ti = @ + 1,
                                          !.log = Append(loaded, Event("paths", run.ti, 0))],
                              textNodeToPathsDoc(doc, textNode), r))

\* A loadFontAsync that generateGCode awaits has resolved.
FontLoaded(r) ==
    /\ ~pluginClosed
    /\ runs[r].pc = "loading"
    /\ LET run == runs[r]
           textNode == run.textNodes[run.ti]
           loaded == Append(run.log, Event("loaded", run.ti, run.ci))
       IN  IF run.ci # 0 /\ run.ci < run.len
           THEN Resume(r, [run |-> [run EXCEPT !.ci = @ + 1,
                                               !.log = Append(loaded, Event("request", run.ti, run.ci + 1))],
                           doc |-> doc, post |-> <<>>])
           ELSE Resume(r, TextLoop([run EXCEPT !.allPaths = @ \o textNodeToPaths(doc, textNode),
                                               !.ti = @ + 1,
                                               !.log = Append(loaded, Event("paths", run.ti, 0))],
                                   textNodeToPathsDoc(doc, textNode), r))

\* A loadFontAsync that generateGCode awaits has rejected: the catch logs
\* it and the loop goes on to the next text node.
FontFailed(r) ==
    /\ ~pluginClosed
    /\ runs[r].pc = "loading"
    /\ Resume(r, TextLoop([runs[r] EXCEPT !.ti = @ + 1,
                                          !.log = Append(@, Event("failed", runs[r].ti, runs[r].ci))],
                          doc, r))

\* The user changes the selection.
SelectionChange(sel) ==
    /\ ~pluginClosed
    /\ sel # selection
    /\ selection' = sel
    /\ UNCHANGED <<doc, runs, msgs, stored, pluginClosed>>
    /\ UNCHANGED pureVars

\* The user moves the frame on the page.
DocumentEdit ==
    /\ ~pluginClosed
    /\ doc' = [doc EXCEPT ![OuterFrame].x = MovedTo(@)]
    /\ UNCHANGED <<selection, runs, msgs, stored, pluginClosed>>
    /\ UNCHANGED pureVars

Next ==
    \/ \E st \in MsgSettings : UiGenerate(st)
    \/ UiCancel
    \/ \E r \in 1..Len(runs) : SaveDone(r)
    \/ \E r \in 1..Len(runs) : FontLoaded(r)
    \/ \E r \in 1..Len(runs) : FontFailed(r)
    \/ \E sel \in Selections : SelectionChange(sel)
    \/ DocumentEdit

Spec == Init /\ [][Next]_vars
----------------------------------------------------------------------------
(* Claims about the runs of the plugin *)

\* The messages that run r has posted, in order.
MsgsOf(r) == SelectSeq(msgs, LAMBDA m : m.run = r)

\* The step is run r's first segment: generateGCode called after the save,
\* run up to its first await or its end.
Starts(r) == runs[r].pc = "saving" /\ runs'[r].pc # "saving"

ValidSettings(st) == RLess(R(0), st.scale) /\ st.feedRate > 0

HasNonFinite(gcode) ==
    \E i \in 1..Len(gcode) :
        IsCoordMove(gcode[i]) /\ (gcode[i].x.k # "num" \/ gcode[i].y.k # "num")

\* C6: a run whose settings have scale <= 0 or feedRate <= 0 is rejected:
\* it posts no program, and no program posted holds a coordinate that is
\* Infinity or NaN.
C6_InvalidSettingsRejected ==
    \A i \in 1..Len(msgs) :
        msgs[i].type = "gcode" =>
            /\ ValidSettings(runs[msgs[i].run].settings)
            /\ ~HasNonFinite(msgs[i].gcode)

\* C8: a run that finds the selection empty posts exactly one message, the
\* error "Please select one or more vector objects", and ends with it; the
\* step resolves no origin and leaves the document as it was.
C8_EmptySelection ==
    /\ [](\A r \in 1..Len(runs) :
            (runs[r].pc = "done" /\ runs[r].selection = <<>>) =>
                /\ MsgsOf(r) = <<ErrorMessage(NoSelectionText, r)>>
                /\ runs[r].origin = NoOrigin)
    /\ [][\A r \in 1..Len(runs) :
            (Starts(r) /\ selection = <<>>) =>
                /\ runs'[r].pc = "done"
                /\ runs'[r].selection = <<>>
                /\ doc' = doc]_vars

\* A run has ended on an empty selection, after a run on a selection that
\* needed a created frame.
C8_Witness ==
    \E r \in 1..Len(runs) :
        /\ runs[r].pc = "done"
        /\ runs[r].selection = <<>>
        /\ Len(MsgsOf(r)) = 1
        /\ Len(doc) > Len(InitialDocument)

C10_Rule1(d, sel) == Len(sel) = 1 /\ d[sel[1]].type = "FRAME"

C10_Rule2(d, sel) ==
    /\ d[sel[1]].parent # PAGE
    /\ d[d[sel[1]].parent].type = "FRAME"
    /\ \A i \in 1..Len(sel) : d[sel[i]].parent = d[sel[1]].parent

\* The origin that names the existing frame f of document d.
C10_Existing(d, f) ==
    [x |-> AbsX(d, f), y |-> AbsY(d, f), height |-> d[f].height, frame |-> f]

\* The step creates no node and moves none.
C10_NothingMoved ==
    /\ Len(doc') = Len(doc)
    /\ \A i \in 1..Len(doc) :
           /\ doc'[i].parent = doc[i].parent
           /\ doc'[i].children = doc[i].children
           /\ doc'[i].x = doc[i].x
           /\ doc'[i].y = doc[i].y

\* C10: a run on a non-empty selection resolves its origin by the first
\* rule that applies: a selection of exactly one frame gives that frame
\* (whatever its parent); else a selection whose nodes all have the same
\* frame as parent gives that parent; else a frame is created and the origin
\* is the created one (frame null).  The steps that create a frame are those
\* of runs to which neither of the first two rules applies.
C10_RulePriority ==
    [][/\ \A r \in 1..Len(runs) :
            (Starts(r) /\ selection # <<>>) =>
                IF C10_Rule1(doc, selection)
                THEN /\ runs'[r].origin = C10_Existing(doc, selection[1])
                     /\ C10_NothingMoved
                ELSE IF C10_Rule2(doc, selection)
                THEN /\ runs'[r].origin = C10_Existing(doc, doc[selection[1]].parent)
                     /\ C10_NothingMoved
                ELSE /\ Len(doc') = Len(doc) + 1
                     /\ doc'[Len(doc')].name = "G-Code Bounds"
                     /\ runs'[r].origin =
                            [C10_Existing(doc', Len(doc')) EXCEPT !.frame = 0]
       /\ Len(doc') # Len(doc) =>
            \E r \in 1..Len(runs) :
                /\ Starts(r)
                /\ selection # <<>>
                /\ ~C10_Rule1(doc, selection)
                /\ ~C10_Rule2(doc, selection)]_vars

\* A run has resolved its origin on a selection of one frame whose parent is
\* a frame too, and another on a selection that needed a created frame.
C10_Witness ==
    /\ \E r \in 1..Len(runs) :
           /\ runs[r].selection = <<2>>
           /\ runs[r].origin.frame = 2
           /\ doc[doc[2].parent].type = "FRAME"
    /\ \E r \in 1..Len(runs) :
           /\ runs[r].selection = <<3, 4>>
           /\ runs[r].origin.frame = 0
           /\ Len(doc) > Len(InitialDocument)

\* The step is run r's first segment on a selection for which
\* determineOrigin creates a frame.
C11_Creates(r) ==
    /\ Starts(r)
    /\ selection # <<>>
    /\ ~C10_Rule1(doc, selection)
    /\ ~C10_Rule2(doc, selection)

\* The least and the greatest of a non-empty set of finite numbers.
C11_Least(S) == CHOOSE v \in S : \A w \in S : ~RLess(w, v)

C11_Greatest(S) == CHOOSE v \in S : \A w \in S : ~RLess(v, w)

\* The bounding box of the absolute bounds of the nodes of sel in d.
C11_Box(d, sel) ==
    LET B(i) == absoluteBoundingBox(d, sel[i])
        I    == 1..Len(sel)
    IN  [minX |-> C11_Least({B(i).x : i \in I}),
         minY |-> C11_Least({B(i).y : i \in I}),
         maxX |-> C11_Greatest({RAdd(B(i).x, B(i).width) : i \in I}),
         maxY |-> C11_Greatest({RAdd(B(i).y, B(i).height) : i \in I})]

C12_MovedInPlace ==
    [][\A r \in 1..Len(runs) :
          C11_Creates(r) =>
              LET f == Len(doc')
              IN  /\ doc'[f].children = selection
                  /\ \A i \in 1..Len(selection) :
                         LET id == selection[i]
                         IN  /\ doc'[id].parent = f
                             /\ doc'[id].x = RSub(AbsX(doc, id), AbsX(doc', f))
                             /\ doc'[id].y = RSub(AbsY(doc, id), AbsY(doc', f))
                             /\ AbsX(doc', id) = AbsX(doc, id)
                             /\ AbsY(doc', id) = AbsY(doc, id)
                             /\ \A p \in 1..Len(doc) :
                                    p # f => id \notin {doc'[p].children[k] :
                                                 k \in 1..Len(doc'[p].children)}]_vars

\* A created frame holds a node that was nested two frames deep, at a local
\* position that differs from the one it had.
C12_Witness ==
    /\ Len(doc) > Len(InitialDocument)
    /\ doc[3].parent > Len(InitialDocument)
    /\ doc[4].parent = doc[3].parent
    /\ doc[3].x # InitialDocument[3].x

\* Run r has ended with an error message.
C25_EndedWithError(r) ==
    /\ runs[r].pc = "done"
    /\ MsgsOf(r) # <<>>
    /\ MsgsOf(r)[Len(MsgsOf(r))].type = "error"

\* Run r resolved its origin by creating a frame (determineOrigin returned
\* frame: null) and moving the selected nodes into it.
C25_CreatedFrame(r) == runs[r].selection # <<>> /\ runs[r].origin.frame = 0

\* C25 (as the specification states it): a run that ends with an error
\* leaves the document unchanged: when the error is posted the run has
\* created no frame and has moved no selected node, and the step of a run
\* that ends at once with an error changes nothing in the document.
C25_ErrorLeavesDocument ==
    /\ [](\A r \in 1..Len(runs) : C25_EndedWithError(r) => ~C25_CreatedFrame(r))
    /\ [][\A r \in 1..Len(runs) :
            (Starts(r) /\ runs'[r].pc = "done"
                       /\ msgs' = Append(msgs, ErrorMessage(msgs'[Len(msgs')].message, r)))
                => doc' = doc]_vars

----------------------------------------------------------------------------
(* Claims that compare two calls of pathsToGCode *)

IsOriginComment(l) == l.op = ";" /\ l.tag = "Origin"

\* The origin org with the other source kind: a created frame (frame null)
\* for an existing one, and an existing one for a created one.
C13_OtherKind(org) == [org EXCEPT !.frame = IF @ = 0 THEN 1 ELSE 0]

\* The program of the second call: the same paths and settings, the origin of
\* the other kind.
C13_Other == pathsToGCode(paths, settings, C13_OtherKind(origin))

\* C13: the origin's frame field shows in the "; Origin:" comment alone: the
\* programs of two calls that differ in it only have the same length and
\* the same line at every place but that comment's.
C13_KindInCommentOnly ==
    phase = "done" =>
        LET other == C13_Other
        IN  /\ Len(other) = Len(lines)
            /\ \A i \in 1..Len(lines) :
                   lines[i] # other[i] =>
                       IsOriginComment(lines[i]) /\ IsOriginComment(other[i])

\* A program with coordinate moves whose "; Origin:" comment is not the one
\* the other kind of origin gives.
C13_Witness ==
    /\ phase = "done"
    /\ CountLines(lines, IsCoordMove) >= 2
    /\ \E i \in 1..Len(lines) :
           /\ IsOriginComment(lines[i])
           /\ lines[i] # C13_Other[i]

----------------------------------------------------------------------------
(* Claims about font loading and the order of events *)

\* The characters' fonts that a call requests for text node id of d: the
\* one font (0) or the font of each character when fonts are mixed.
C14_Fonts(d, id) == IF d[id].mixed THEN 1..Len(d[id].characters) ELSE {0}

C14_Has(log, ev, ti, ci, before) ==
    \E k \in 1..(before - 1) : log[k] = Event(ev, ti, ci)

\* C14: in every run, a call of textNodeToPaths on a text node comes after
\* every font load the run requests for that node, each of them loaded; no
\* load for the node comes after it, and a node with a failed load is never
\* converted.
C14_PathsAfterFonts ==
    \A r \in 1..Len(runs) :
        LET log == runs[r].log
        IN  \A k \in 1..Len(log) :
                /\ log[k].ev = "paths" =>
                       /\ \A c \in C14_Fonts(doc, runs[r].textNodes[log[k].ti]) :
                              /\ C14_Has(log, "request", log[k].ti, c, k)
                              /\ C14_Has(log, "loaded", log[k].ti, c, k)
                       /\ \A j \in 1..Len(log) :
                              (log[j].ti = log[k].ti /\ log[j].ev # "paths") => j < k
                /\ log[k].ev = "failed" =>
                       \A j \in 1..Len(log) :
                           log[j].ti = log[k].ti => log[j].ev # "paths"

\* A run has converted a text node of mixed fonts after loading the font of
\* each of its two characters, and a run has skipped a node whose second
\* font failed to load.
C14_Witness ==
    /\ \E r \in 1..Len(runs) :
           \E k \in 1..Len(runs[r].log) :
               /\ runs[r].log[k].ev = "paths"
               /\ doc[runs[r].textNodes[runs[r].log[k].ti]].mixed
               /\ C14_Has(runs[r].log, "loaded", runs[r].log[k].ti, 2, k)
    /\ \E r \in 1..Len(runs) :
           /\ runs[r].pc = "done"
           /\ \E k \in 1..Len(runs[r].log) : runs[r].log[k] = Event("failed", 1, 2)

\* Run r has resolved its origin and has geometry left to read: it awaits a
\* font for a text node whose transform it reads after the await.
C15_Reading(r) == runs[r].pc = "loading"

\* C15: between a run's origin resolution and its reading of the last
\* node's geometry no host event is interleaved: while the run is there,
\* every step is the run's own (the document is edited by no one else, the
\* selection stays, no other call of generateGCode starts or goes on).
C15_NoInterleaving ==
    [][\A r \in 1..Len(runs) :
          C15_Reading(r) =>
              /\ runs'[r] # runs[r]
              /\ selection' = selection
              /\ Len(runs') = Len(runs)
              /\ \A q \in 1..Len(runs) : q # r => runs'[q] = runs[q]]_vars

----------------------------------------------------------------------------
(* Claims about the curve flattener *)

\* The call in the state has returned.
Returned == curve.pc = "called" /\ ~curve.gave.thrown

\* What the call in the state gives with tolerance t in place of its own.
WithTolerance(t) ==
    linearizeCubicBezier(curve.p0, curve.p1, curve.p2, curve.p3, t, 1)

\* C16: for one cubic segment and tolerances t1 <= t2, linearizeCubicBezier
\* returns at least as many points with t1 as with t2.
C16_FinerGivesNoFewer ==
    Returned =>
        \A t \in Tolerances :
            LET other == WithTolerance(t)
            IN  ~other.thrown =>
                    /\ RLeq(curve.tolerance, t) =>
                           Len(curve.gave.points) >= Len(other.points)
                    /\ RLeq(t, curve.tolerance) =>
                           Len(curve.gave.points) <= Len(other.points)

\* A segment that gives more points at tolerance 0.5 than at 2, and more at
\* 2 than at 8.
C16_Witness ==
    /\ Returned
    /\ curve.tolerance = BEZIER_TOLERANCE
    /\ Len(curve.gave.points) > Len(WithTolerance(R(2)).points)
    /\ Len(WithTolerance(R(2)).points) > Len(WithTolerance(R(8)).points)

\* The parameters at which the true curve is sampled.
C17_Samples == {Rat(1, 4), Rat(1, 2), Rat(3, 4)}

\* One coordinate of the cubic with control values a, b, c, d at t:
\* (1-t)^3 a + 3 (1-t)^2 t b + 3 (1-t) t^2 c + t^3 d.
C17_Cubic(a, b, c, d, t) ==
    LET u == RSub(R(1), t)
    IN  RAdd(RAdd(RMul(RMul(Sq(u), u), a),
                  RMul(RMul(R(3), RMul(Sq(u), t)), b)),
             RAdd(RMul(RMul(R(3), RMul(u, Sq(t))), c),
                  RMul(RMul(Sq(t), t), d)))

\* The point of the call's curve at t.
C17_CurvePoint(t) ==
    [x |-> C17_Cubic(curve.p0.x, curve.p1.x, curve.p2.x, curve.p3.x, t),
     y |-> C17_Cubic(curve.p0.y, curve.p1.y, curve.p2.y, curve.p3.y, t)]

\* The square of the distance from p to the segment from a to b.
C17_DistSqToSegment(p, a, b) ==
    LET dx == RSub(b.x, a.x)
        dy == RSub(b.y, a.y)
        lengthSq == RAdd(Sq(dx), Sq(dy))
    IN  IF lengthSq = R(0)
        THEN RAdd(Sq(RSub(p.x, a.x)), Sq(RSub(p.y, a.y)))
        ELSE LET dot == RAdd(RMul(RSub(p.x, a.x), dx), RMul(RSub(p.y, a.y), dy))
                 u   == RDiv(dot, lengthSq)
                 c   == IF RLess(u, R(0)) THEN R(0) ELSE IF RLess(R(1), u) THEN R(1) ELSE u
                 qx  == RAdd(a.x, RMul(c, dx))
                 qy  == RAdd(a.y, RMul(c, dy))
             IN  RAdd(Sq(RSub(p.x, qx)), Sq(RSub(p.y, qy)))

\* p0 followed by the points returned.
C17_Polyline == <<curve.p0>> \o curve.gave.points

\* C17: every point of the true curve is within the tolerance of the
\* polyline p0, returned points (read at the curve's points at t = 1/4,
\* 1/2 and 3/4), also when the control points lie on the chord's line
\* beyond its ends.
C17_DeviationBounded ==
    Returned =>
        \A t \in C17_Samples :
            \E i \in 1..(Len(C17_Polyline) - 1) :
                RLeq(C17_DistSqToSegment(C17_CurvePoint(t), C17_Polyline[i],
                                         C17_Polyline[i + 1]),
                     Sq(curve.tolerance))

\* All four control points of the call are one point.
C19_Coincident == curve.p0 = curve.p1 /\ curve.p1 = curve.p2 /\ curve.p2 = curve.p3

\* C19: a call whose segment is flat within the tolerance (as when its four
\* control points coincide) returns exactly <<p3>>; every call that returns
\* gives a non-empty sequence that ends with p3 and does not hold p0 as an
\* extra first point: it has one point for each segment found flat.
C19_FlatGivesEndpoint ==
    Returned =>
        /\ IsFlat(curve.p0, curve.p1, curve.p2, curve.p3, curve.tolerance) =>
               curve.gave.points = <<curve.p3>>
        /\ C19_Coincident => curve.gave.points = <<curve.p3>>
        /\ Len(curve.gave.points) >= 1
        /\ curve.gave.points[Len(curve.gave.points)] = curve.p3
        /\ Len(curve.gave.points) = curve.gave.leaves
        /\ curve.p0 # curve.p3 => curve.gave.points[1] # curve.p0

\* A call on four coincident control points has returned its one point, at
\* the tolerance the plugin uses.
C19_Witness ==
    /\ Returned
    /\ C19_Coincident
    /\ curve.gave.points = <<curve.p3>>
    /\ curve.gave.depth = 1
    /\ curve.tolerance = BEZIER_TOLERANCE

\* C20: every call of linearizeCubicBezier ends by returning, and its
\* recursion is never nested deeper than 24, also for control points that
\* are not finite numbers, for which the flatness test never succeeds.
C20_DepthCapped ==
    curve.pc = "called" => ~curve.gave.thrown /\ curve.gave.depth <= 24

----------------------------------------------------------------------------
(* Claims about the pen *)

\* The pen commands before line i of the program.
C24_PenLines(i) == {j \in 1..(i - 1) : lines[j].op = "pen"}

\* The text of the last pen command before line i.
C24_LastPen(i) ==
    lines[CHOOSE j \in C24_PenLines(i) : \A k \in C24_PenLines(i) : k <= j].s

C24_PenUp(i) == C24_PenLines(i) # {} /\ C24_LastPen(i) = settings.penUpCmd

C24_PenDown(i) == C24_PenLines(i) # {} /\ C24_LastPen(i) = settings.penDownCmd

\* C24: with the pen up after penUpCmd and down after penDownCmd, every G1
\* of a program is written with the pen down, every G0 (the returns to
\* X0 Y0 included), every M0 and the M2 with the pen up, and no penDownCmd
\* follows a penDownCmd without a penUpCmd between them.
C24_PenDiscipline ==
    phase = "done" =>
        \A i \in 1..Len(lines) :
            /\ lines[i].op = "G1" => C24_PenDown(i)
            /\ lines[i].op \in {"G0", "M0", "M2"} => C24_PenUp(i)
            /\ (lines[i].op = "pen" /\ lines[i].s = settings.penDownCmd)
                   => ~C24_PenDown(i)

\* A program of three buckets with two pauses, in which several paths are
\* drawn with feed moves.
C24_Witness ==
    /\ phase = "done"
    /\ Len(groups) = 3
    /\ CountLines(lines, C2_IsPause) = 2
    /\ \E i, j \in 1..Len(lines) :
           /\ i < j
           /\ lines[i].op = "G1" /\ lines[j].op = "G1"
           /\ \E k \in (i + 1)..(j - 1) : lines[k].op = "G0" /\ lines[k].tag = "XY"

----------------------------------------------------------------------------
(* Claims about the stroke font engine *)

\* textNodeToPaths has been called on the one text node of the document.
TextCalled == phase = "done" /\ Len(doc) = 1

\* C18: textNodeToPaths returns no path when the text node's box has width
\* 0 or height 0, whatever the text, drawable glyphs included.
C18_DegenerateBoxGivesNoPaths ==
    (TextCalled /\ (doc[1].width = R(0) \/ doc[1].height = R(0))) => paths = <<>>

\* The strokes of the character at index j of the text: none for a
\* character the table lacks.
C23_Strokes(text, j) ==
    IF HERSHEY_FONT(text[j]) = <<>> THEN <<>> ELSE HERSHEY_FONT(text[j])[1].strokes

\* The advance width of a character: 16 for one the table lacks.
C23_Advance(char) ==
    IF HERSHEY_FONT(char) = <<>> THEN 16 ELSE HERSHEY_FONT(char)[1].width

\* The line breaks before index j, and the index at which j's line starts.
C23_Breaks(text, j) == {i \in 1..(j - 1) : text[i] = "\n"}

C23_LineStart(text, j) ==
    IF C23_Breaks(text, j) = {} THEN 1
    ELSE 1 + (CHOOSE i \in C23_Breaks(text, j) : \A k \in C23_Breaks(text, j) : k <= i)

\* The advance widths of text[i], ..., text[j - 1] added up.
RECURSIVE C23_Advances(_, _, _)
C23_Advances(text, i, j) ==
    IF i >= j THEN 0 ELSE C23_Advance(text[i]) + C23_Advances(text, i + 1, j)

C23_Offset(text, j) == C23_Advances(text, C23_LineStart(text, j), j)

\* The open path of one stroke of the character at index j, in the node's
\* box measured by measureHersheyText.
C23_StrokePath(d, j, stroke) ==
    LET text == d[1].characters
        size == measureHersheyText(text)
        line == Cardinality(C23_Breaks(text, j))
    IN  Path([k \in 1..(Len(stroke) \div 2) |->
                 transformPoint(
                     RMul(R(C23_Offset(text, j) + stroke[2 * k - 1]),
                          RDiv(d[1].width, R(size.width))),
                     RMul(R(line * 25 + stroke[2 * k]),
                          RDiv(d[1].height, R(size.height))),
                     absoluteTransform(d, 1))],
             FALSE, getNodeStrokeColor(d, 1))

\* The paths of the characters from index j on, stroke after stroke.
RECURSIVE C23_From(_, _)
C23_From(d, j) ==
    IF j > Len(d[1].characters) THEN <<>>
    ELSE [k \in 1..Len(C23_Strokes(d[1].characters, j)) |->
             C23_StrokePath(d, j, C23_Strokes(d[1].characters, j)[k])]
         \o C23_From(d, j + 1)

RECURSIVE C23_StrokeCount(_, _)
C23_StrokeCount(text, j) ==
    IF j > Len(text) THEN 0
    ELSE Len(C23_Strokes(text, j)) + C23_StrokeCount(text, j + 1)

\* C23: textNodeToPaths returns one open path per glyph stroke, in the order
\* of the text, so as many paths as the characters have strokes; the strokes
\* of a character are offset by the advance widths of the characters before
\* it on its line (16 for a character the table lacks, which gives no path),
\* the offset starting at 0 again on every line.
C23_OnePathPerStroke ==
    TextCalled =>
        /\ Len(paths) = C23_StrokeCount(doc[1].characters, 1)
        /\ paths = C23_From(doc, 1)
        /\ \A k \in 1..Len(paths) : ~paths[k].closed /\ Len(paths[k].points) >= 2

\* A text whose second line holds a character the table lacks and, after it,
\* a character with strokes, in a box that has a width and a height.
C23_Witness ==
    /\ TextCalled
    /\ doc[1].width # R(0) /\ doc[1].height # R(0)
    /\ paths # <<>>
    /\ \E j \in 1..Len(doc[1].characters) :
           /\ C23_Strokes(doc[1].characters, j) # <<>>
           /\ C23_Breaks(doc[1].characters, j) # {}
           /\ C23_Offset(doc[1].characters, j) > 0
           /\ HERSHEY_FONT(doc[1].characters[j - 1]) = <<>>

----------------------------------------------------------------------------
(* Claims about the path data parser *)

ParseReturned == parsed.pc = "called" /\ ~parsed.thrown

\* C21 (as the specification states it): every Path that parsePathData
\* returns with closed = true and at least one point ends at its first
\* point, whatever the commands are, commands after a Z included.
C21_ClosedEndsAtFirst ==
    (ParseReturned /\ parsed.closed /\ Len(parsed.points) >= 1)
        => parsed.points[Len(parsed.points)] = parsed.points[1]

\* The number of arguments the branch of a command reads.
ArgsRead(cmd) ==
    CASE CommandType(cmd) \in {"M", "L"} -> 2
      [] CommandType(cmd) = "C" -> 6
      [] CommandType(cmd) = "Q" -> 4
      [] OTHER -> 0

\* A command with too few arguments, or with a token that is no number.
Malformed(cmd) ==
    \/ Len(CommandArgs(cmd)) < ArgsRead(cmd)
    \/ \E k \in 1..Len(CommandArgs(cmd)) : IsNaN(CommandArgs(cmd)[k])

WithoutCommand(commands, k) ==
    [i \in 1..(Len(commands) - 1) |-> IF i < k THEN commands[i] ELSE commands[i + 1]]

NonNumeric(p) == IsNaN(p.x) \/ IsNaN(p.y)

\* C22 (as the specification states it): a malformed command is skipped
\* and the call is not aborted: the Path returned is the one the same data
\* gives with that command removed, and no point with a coordinate that is
\* not a number is stored.
C22_MalformedSkipped ==
    parsed.pc = "called" =>
        LET commands == match(parsed.data)
        IN  \A k \in 1..Len(commands) :
                Malformed(commands[k]) =>
                    LET rest == parsePathData(Concat(WithoutCommand(commands, k)),
                                              NodeTransform)
                    IN  /\ ~parsed.thrown
                        /\ ~rest.thrown
                        /\ parsed.points = rest.points
                        /\ parsed.closed = rest.closed
                        /\ \A i \in 1..Len(parsed.points) : ~NonNumeric(parsed.points[i])

====
